---- MODULE Spec2Model ----
(***************************************************************************)
(* A model of the Slick translator (compiler.Compile and the handlers it   *)
(* drives), of the reader's package resolver and symbol reader, and of the *)
(* symbol interner of package lib.                                         *)
(*                                                                         *)
(* Go strings that name packages are modelled as records                   *)
(*     [plug, dir, b, n]                                                   *)
(* standing for the text  ("#" if plug) ("a/" if dir) b (n if n > 0),      *)
(* so that path.Base, the "#" prefix of plugin paths and the numeric       *)
(* suffix that EncloseSymbol appends are computed as the code computes     *)
(* them.                                                                   *)
(***************************************************************************)
EXTENDS Integers, Sequences, FiniteSets, TLC

\* ------------------------------------------------------------------ bounds
MaxForms == 3      \* top-level forms read after the package clause
MaxLexErrs == 11   \* lexical errors the reader may record while reading one form
MaxInterns == 5    \* calls of Intern in the interner specification
MaxCallers == 3    \* goroutines that call Intern concurrently
MaxGensyms == 11   \* calls of Gensym
MaxWatched == 2    \* calls of Gensym whose result is recorded
MaxTokens == 4     \* tokens of a generated source of the rune-level reader
MaxParams == 2     \* entries of a parameter list
MaxReads == 10     \* calls of rd.Read() on one source

\* ------------------------------------------------------- program constants
MaxErrors == 10    \* cmp.error: "if n > 10 { panic(bailout{}) }"

\* ----------------------------------------------------------------- strings
Str(plug, dir, b, n) == [plug |-> plug, dir |-> dir, b |-> b, n |-> n]
S(b) == Str(FALSE, FALSE, b, 0)
EmptyStr == S("")
Keyword == S("_keyword")
Underscore == S("_")

\* path.Base: the last element of a slash-separated path
PathBase(s) == IF s.dir THEN Str(FALSE, FALSE, s.b, s.n) ELSE s

\* fmt.Sprintf("%v%v", newName, counter), for a newName without digits
WithCounter(s, c) == [s EXCEPT !.n = c]

\* "#" + path
AddSentinel(s) == [s EXCEPT !.plug = TRUE]

HasSentinel(s) == s.plug

isValidGoIdentifier(s) ==
    /\ s # EmptyStr
    /\ ~s.plug
    /\ ~s.dir
    /\ s.b \notin {"a-b", "..."}

isValidSimpleIdentifier(sym) ==
    sym.Package = EmptyStr /\ isValidGoIdentifier(sym.Identifier)

isValidQualifiedIdentifier(sym) ==
    /\ isValidGoIdentifier(sym.Package) /\ sym.Package # Underscore
    /\ isValidGoIdentifier(sym.Identifier) /\ sym.Identifier # Underscore

isValidIdentifier(sym) ==
    IF sym.Package = EmptyStr THEN isValidGoIdentifier(sym.Identifier)
    ELSE isValidQualifiedIdentifier(sym)

\* ----------------------------------------------------------------- symbols
\* Inside one translation a symbol is identified with its key
\* (Package, Identifier); the interner itself is modelled further below.
Sym(pkg, ident) == [Package |-> pkg, Identifier |-> ident]

BadForm == [Package |-> S("<bad>"), Identifier |-> S("<bad>")]

Put(m, k, v) == [x \in (DOMAIN m) \cup {k} |-> IF x = k THEN v ELSE m[x]]

EmptyMap == [x \in {} |-> EmptyStr]

\* --------------------------------------------------------- package resolver
ResolveSymbol(P2P, pkg, ident) ==
    IF pkg = EmptyStr \/ pkg = Keyword THEN [ok |-> TRUE, sym |-> Sym(pkg, ident)]
    ELSE IF pkg \in DOMAIN P2P THEN [ok |-> TRUE, sym |-> Sym(P2P[pkg], ident)]
    ELSE [ok |-> FALSE, sym |-> BadForm]

\* EncloseSymbol without the loop over counter: the basename, bound or not
CoinName_NoCounter(P2P, path) == PathBase(path)

\* the short name EncloseSymbol coins for a path that has none
CoinName(P2P, path) ==
    LET newName == PathBase(path) IN
    IF newName \in DOMAIN P2P
    THEN LET c == CHOOSE c \in 1..(Cardinality(DOMAIN P2P) + 1) :
                    /\ WithCounter(newName, c) \notin DOMAIN P2P
                    /\ \A d \in 1..(c - 1) : WithCounter(newName, d) \in DOMAIN P2P
         IN WithCounter(newName, c)
    ELSE newName

EncloseSymbol(P2P, Path2P, sym) ==
    IF sym.Package = EmptyStr \/ sym.Package = Keyword
    THEN [sym |-> sym, enclosed |-> FALSE, PackageToPath |-> P2P, PathToPackage |-> Path2P]
    ELSE IF sym.Package \in DOMAIN Path2P
    THEN [sym |-> Sym(Path2P[sym.Package], sym.Identifier), enclosed |-> FALSE,
          PackageToPath |-> P2P, PathToPackage |-> Path2P]
    ELSE LET newName == CoinName(P2P, sym.Package) IN
         [sym |-> Sym(newName, sym.Identifier), enclosed |-> TRUE,
          PackageToPath |-> Put(P2P, newName, sym.Package),
          PathToPackage |-> Put(Path2P, sym.Package, newName)]

\* ------------------------------------------------------------ symbol reader
\* A written symbol is [colon, pkg, ident, colon2]: the text before the
\* colon (or the whole identifier when there is no colon), the identifier
\* after it, and whether a second colon follows.
HasPrefixUnderscore(s) == s.b \in {"_x", "_keyword"}

\* readSymbol: the form it returns and the messages it hands to rd.Error
readSymbol(P2P, w) ==
    LET e1 == IF w.pkg # Underscore /\ HasPrefixUnderscore(w.pkg)
              THEN <<"invalid package name or identifier">> ELSE <<>>
    IN
    IF ~w.colon
    THEN LET e2 == IF w.pkg = EmptyStr THEN <<"empty identifier">> ELSE <<>> IN
         [form |-> IF e1 \o e2 = <<>> THEN Sym(EmptyStr, w.pkg) ELSE BadForm,
          errs |-> e1 \o e2]
    ELSE LET pkg == IF w.pkg = EmptyStr THEN Keyword ELSE w.pkg
             e2 == IF w.colon2 THEN <<"invalid package prefix">>
                   ELSE IF w.ident = EmptyStr THEN <<"empty identifier">> ELSE <<>>
             e3 == IF w.ident # Underscore /\ HasPrefixUnderscore(w.ident)
                   THEN <<"invalid identifier">> ELSE <<>>
             errs == e1 \o e2 \o e3
         IN IF errs = <<>>
            THEN LET r == ResolveSymbol(P2P, pkg, w.ident) IN
                 [form |-> IF r.ok THEN r.sym ELSE BadForm, errs |-> <<>>]
            ELSE [form |-> BadForm, errs |-> errs]

\* ------------------------------------------------------------ error list
\* The state the handlers of one translation thread through their calls:
\* the reader's error list and resolver maps, the header buffer, how the
\* call ended so far ("ok", a bailout panic, or a run-time panic), a log of
\* the errors detected since the current handler started, and the record
\* of the calls of EncloseSymbol.
NoLine == 0     \* the line of token.NoPos: a form without a range

LastLine(errors) == IF Len(errors) = 0 THEN -1 ELSE errors[Len(errors)].line

LogEntry(cs, via, line, out) ==
    [via |-> via, line |-> line, n |-> Len(cs.Errors), last |-> LastLine(cs.Errors),
     out |-> out]

\* rd.Error: scanner.ErrorList.Add
readerError(cs, line, msg) ==
    IF cs.status # "ok" THEN cs
    ELSE [cs EXCEPT !.Errors = Append(@, [line |-> line, msg |-> msg]),
                    !.log = Append(@, LogEntry(cs, "rd.Error", line, "added"))]

\* cmp.error without the test of the last entry's line
cmpError_NoLineCheck(cs, line, msg) ==
    IF cs.status # "ok" THEN cs
    ELSE IF Len(cs.Errors) > MaxErrors
    THEN [cs EXCEPT !.status = "bailout",
                    !.log = Append(@, LogEntry(cs, "cmp.error", line, "bailout"))]
    ELSE [cs EXCEPT !.Errors = Append(@, [line |-> line, msg |-> msg]),
                    !.log = Append(@, LogEntry(cs, "cmp.error", line, "added"))]

\* cmp.error
cmpError(cs, line, msg) ==
    IF cs.status # "ok" THEN cs
    ELSE LET n == Len(cs.Errors) IN
         IF n > 0 /\ cs.Errors[n].line = line
         THEN [cs EXCEPT !.log = Append(@, LogEntry(cs, "cmp.error", line, "dropped"))]
         ELSE IF n > MaxErrors
         THEN [cs EXCEPT !.status = "bailout",
                         !.log = Append(@, LogEntry(cs, "cmp.error", line, "bailout"))]
         ELSE [cs EXCEPT !.Errors = Append(@, [line |-> line, msg |-> msg]),
                         !.log = Append(@, LogEntry(cs, "cmp.error", line, "added"))]

\* a run-time panic (index out of range, nil dereference, failed type assertion)
runtimePanic(cs) == IF cs.status # "ok" THEN cs ELSE [cs EXCEPT !.status = "panic"]

\* ------------------------------------------------------------ encloseSymbol
\* the record of one call of EncloseSymbol on a qualified symbol: the path,
\* the short name returned, first_use, and what the maps held before the call
EncEntry(cs, sym, r) ==
    [path |-> sym.Package, name |-> r.sym.Package, first |-> r.enclosed,
     hadEntry |-> sym.Package \in DOMAIN cs.PathToPackage,
     baseBound |-> PathBase(sym.Package) \in DOMAIN cs.PackageToPath,
     bound |-> r.sym.Package \in DOMAIN cs.PackageToPath,
     both |-> /\ r.sym.Package \in DOMAIN r.PackageToPath
              /\ r.PackageToPath[r.sym.Package] = sym.Package
              /\ sym.Package \in DOMAIN r.PathToPackage
              /\ r.PathToPackage[sym.Package] = r.sym.Package]

AutoImport(name, path) == [t |-> "import", kw |-> "import", name |-> name, path |-> path]

\* encloseSymbol that drops the import line of a first use
encloseSymbol_NoImport(cs, sym) ==
    IF cs.status # "ok" THEN [cs |-> cs, sym |-> sym]
    ELSE LET r == EncloseSymbol(cs.PackageToPath, cs.PathToPackage, sym) IN
         [cs |-> [cs EXCEPT !.PackageToPath = r.PackageToPath,
                            !.PathToPackage = r.PathToPackage,
                            !.enc = IF sym.Package \in {EmptyStr, Keyword} THEN @
                                    ELSE Append(@, EncEntry(cs, sym, r))],
          sym |-> r.sym]

encloseSymbol(cs, sym) ==
    IF cs.status # "ok" THEN [cs |-> cs, sym |-> sym]
    ELSE LET r == EncloseSymbol(cs.PackageToPath, cs.PathToPackage, sym) IN
         [cs |-> [cs EXCEPT !.PackageToPath = r.PackageToPath,
                            !.PathToPackage = r.PathToPackage,
                            !.enc = IF sym.Package \in {EmptyStr, Keyword} THEN @
                                    ELSE Append(@, EncEntry(cs, sym, r)),
                            !.header = IF r.enclosed
                                       THEN Append(@, AutoImport(r.sym.Package, sym.Package))
                                       ELSE @],
          sym |-> r.sym]

\* -------------------------------------------------------------- expressions
\* An element of a form, as the reader returned it, is
\*   [k |-> "sym", sym |-> s]      a symbol
\*   [k |-> "bad", sym |-> BadForm] a bad-form marker
\*   [k |-> "call", sym |-> s]     the list (s): a call or macro call, s its head
\* Emitted text is kept as the sequence of identifiers written to the buffer.

\* the plugin registry: p.Lookup(sym.Identifier) finds the macro M only
MacroDefined(ident) == ident = S("M")

\* the form every macro M returns: the local identifier x
Expansion == [k |-> "sym", sym |-> Sym(EmptyStr, S("x"))]

\* compileExpr, case *lib.Symbol, from the test of the symbol r.sym that
\* encloseSymbol returned
formatSymbolExpr(r, line) ==
    LET c == IF ~isValidIdentifier(r.sym)
             THEN cmpError(r.cs, line, "Invalid identifier")
             ELSE r.cs
    IN [cs |-> c, ids |-> IF c.status = "ok" THEN <<r.sym>> ELSE <<>>]

\* compileExpr, case *lib.Symbol
compileSymbolExpr(cs, line, sym) == formatSymbolExpr(encloseSymbol(cs, sym), line)

\* compileExpr on a symbol or a bad form
compileAtomExpr(cs, line, e) ==
    IF e.k = "sym" THEN compileSymbolExpr(cs, line, e.sym)
    ELSE [cs |-> cmpError(cs, line, "Invalid expression"), ids |-> <<>>]

\* compileCallExpression on the one-element list (head)
compileCallExpression(cs, line, head) ==
    compileAtomExpr(cs, line, [k |-> IF head = BadForm THEN "bad" ELSE "sym", sym |-> head])

compileExpr(cs, line, e) ==
    IF e.k # "call" THEN compileAtomExpr(cs, line, e)
    ELSE IF e.sym # BadForm /\ HasSentinel(e.sym.Package)
    THEN IF MacroDefined(e.sym.Identifier)
         THEN compileAtomExpr(cs, line, Expansion)
         ELSE compileCallExpression(cmpError(cs, line, "invalid macro invocation"),
                                    line, e.sym)
    ELSE compileCallExpression(cs, line, e.sym)

\* compileType, case *lib.Symbol, from the test of the symbol r.sym that
\* encloseSymbol returned
formatTypeSymbol(r, line) ==
    IF ~isValidIdentifier(r.sym)
    THEN [cs |-> cmpError(r.cs, line, "invalid identifier"), ids |-> <<>>]
    ELSE [cs |-> r.cs, ids |-> <<r.sym>>]

\* compileType on a symbol or a bad form
compileType(cs, line, e) ==
    IF e.k = "sym" THEN formatTypeSymbol(encloseSymbol(cs, e.sym), line)
    ELSE [cs |-> cmpError(cs, line, "invalid type declaration"), ids |-> <<>>]

\* ------------------------------------------------------------- declarations
\* A top-level list form is [k |-> "pair", head, line, inner, specs, lex]:
\* its head symbol, the line it starts on, the line of its specs, its specs.
Decl(name, path, ids) == [name |-> name, path |-> path, ids |-> ids]

\* the function compileImportDecl hands to compileGenDecl
importSpec(cs, form, spec) ==
    IF spec.shape = "string"
    THEN LET pkg == PathBase(spec.path)
             c1 == IF pkg \in DOMAIN cs.PackageToPath
                   THEN cmpError(cs, form.line, "ambiguous import") ELSE cs
             c2 == IF c1.status # "ok" THEN c1
                   ELSE [c1 EXCEPT !.PackageToPath = Put(@, pkg, spec.path),
                                   !.PathToPackage = Put(@, spec.path, pkg)]
         IN [cs |-> c2, decl |-> <<Decl(EmptyStr, spec.path, <<>>)>>]
    ELSE LET quoted == spec.shape = "quoted"
             c1 == IF ~isValidSimpleIdentifier(Sym(EmptyStr, spec.name))
                   THEN cmpError(cs, form.inner, "invalid import identifier") ELSE cs
             importName == spec.name
             c2 == IF importName # Underscore /\ importName \in DOMAIN c1.PackageToPath
                   THEN cmpError(c1, form.line, "ambiguous import") ELSE c1
             c3 == IF c2.status # "ok" \/ importName = Underscore THEN c2
                   ELSE [c2 EXCEPT !.PackageToPath = Put(@, importName, spec.path),
                                   !.PathToPackage = IF quoted THEN @
                                                     ELSE Put(@, spec.path, importName)]
         IN [cs |-> c3,
             decl |-> IF quoted THEN <<>> ELSE <<Decl(importName, spec.path, <<>>)>>]

\* the function compileUseDecl hands to compileGenDecl; every plugin the
\* source names can be opened (resolvePlugin returns)
useSpec(cs, form, spec) ==
    IF spec.shape = "string"
    THEN LET pkg == PathBase(spec.path)
             c1 == IF pkg \in DOMAIN cs.PackageToPath
                   THEN cmpError(cs, form.line, "ambiguous use declaration") ELSE cs
             c2 == IF c1.status # "ok" THEN c1
                   ELSE [c1 EXCEPT !.PackageToPath = Put(@, pkg, AddSentinel(spec.path))]
         IN [cs |-> c2, decl |-> <<>>]
    ELSE LET c1 == IF ~isValidSimpleIdentifier(Sym(EmptyStr, spec.name))
                   THEN cmpError(cs, form.inner, "invalid plugin identifier") ELSE cs
             pluginName == spec.name
             c2 == IF pluginName # Underscore /\ pluginName \in DOMAIN c1.PackageToPath
                   THEN cmpError(c1, form.line, "ambiguous use declaration") ELSE c1
             c3 == IF c2.status # "ok" \/ pluginName = Underscore THEN c2
                   ELSE [c2 EXCEPT !.PackageToPath =
                                       Put(@, pluginName, AddSentinel(spec.path))]
         IN [cs |-> c3, decl |-> <<>>]

\* the declaration compileValueSpec's function returns for the name x, with
\* the text r.ids that compileType or compileExpr wrote
valueDecl(r) == [cs |-> r.cs, decl |-> <<Decl(S("x"), EmptyStr, r.ids)>>]

\* the function compileValueSpec returns, for a var declaration; a spec is
\*   "bare"     x
\*   "missing"  (x)
\*   "typed"    (x :type e)
\*   "value"    (x := e)
valueSpec(cs, form, spec) ==
    CASE spec.shape = "bare" ->
           [cs |-> cmpError(cs, form.line, "missing variable type or initialization"),
            decl |-> <<Decl(S("x"), EmptyStr, <<>>)>>]
      [] spec.shape = "missing" ->
           [cs |-> cmpError(cs, form.inner, "missing variable type or initialization"),
            decl |-> <<Decl(S("x"), EmptyStr, <<>>)>>]
      [] spec.shape = "typed" -> valueDecl(compileType(cs, form.inner, spec.e))
      [] OTHER -> valueDecl(compileExpr(cs, form.inner, spec.e))

\* f(element) of compileGenDecl, by keyword
specFunc(cs, keyword, form, spec) ==
    CASE keyword = "import" -> importSpec(cs, form, spec)
      [] keyword = "use" -> useSpec(cs, form, spec)
      [] OTHER -> valueSpec(cs, form, spec)

\* cdr.ForEach(f): the declarations f returns that are not empty
RECURSIVE forEachSpec(_, _, _, _)
RECURSIVE forEachRest(_, _, _, _)
forEachSpec(cs, keyword, form, specs) ==
    IF specs = <<>> \/ cs.status # "ok" THEN [cs |-> cs, decls |-> <<>>]
    ELSE forEachRest(specFunc(cs, keyword, form, Head(specs)), keyword, form, Tail(specs))

\* cdr.ForEach(f) after the call of f that returned r
forEachRest(r, keyword, form, specs) ==
    LET rest == forEachSpec(r.cs, keyword, form, specs)
    IN [cs |-> rest.cs, decls |-> r.decl \o rest.decls]

GenEntry(keyword, group, decls) ==
    [t |-> "decl", kw |-> keyword, group |-> group, decls |-> decls]

\* compileGenDecl: what oneDecl (one spec) or the grouped form (several)
\* appends for the declarations r.decls that f returned
appendGenDecl(r, keyword, n) ==
    IF n = 1
    THEN [cs |-> r.cs,
          out |-> IF r.decls = <<>> THEN <<>>
                  ELSE <<GenEntry(keyword, FALSE, r.decls)>>]
    ELSE [cs |-> r.cs, out |-> <<GenEntry(keyword, TRUE, r.decls)>>]

\* compileGenDecl: what it appends to the buffer it is given
compileGenDecl(cs, keyword, form) ==
    IF Len(form.specs) = 0 THEN [cs |-> runtimePanic(cs), out |-> <<>>]
    ELSE appendGenDecl(forEachSpec(cs, keyword, form, form.specs), keyword,
                       Len(form.specs))

\* cmp.header = cmp.compileGenDecl(cmp.header, ...)
assignHeader(r) ==
    IF r.cs.status # "ok" THEN r.cs
    ELSE [r.cs EXCEPT !.header = @ \o r.out]

compileImportDecl(cs, form) == assignHeader(compileGenDecl(cs, "import", form))

compileUseDecl(cs, form) == assignHeader(compileGenDecl(cs, "use", form))

\* the form a top-level macro M returns: (var (x :type int))
TopExpansion(form) ==
    [k |-> "pair", head |-> "var", sym |-> Sym(EmptyStr, S("var")),
     line |-> NoLine, inner |-> NoLine,
     specs |-> <<[shape |-> "typed", e |-> [k |-> "sym", sym |-> Sym(EmptyStr, S("int"))]]>>,
     lex |-> 0]

\* return cmp.compileGenDecl(result, ...)
appendResult(r, result) == [cs |-> r.cs, result |-> result \o r.out]

\* compileDecl: the state and the result buffer after the form
RECURSIVE compileDecl(_, _, _)
RECURSIVE compileSplice(_, _, _)
compileDecl(cs, result, form) ==
    IF cs.status # "ok" THEN [cs |-> cs, result |-> result]
    ELSE IF form.k # "pair" THEN [cs |-> runtimePanic(cs), result |-> result]
    ELSE CASE form.head = "splice" -> compileSplice(cs, result, form.specs)
           [] form.head = "var" ->
                appendResult(compileGenDecl(cs, "var", form), result)
           [] form.head = "macro" /\ form.sym # BadForm /\ HasSentinel(form.sym.Package) ->
                IF MacroDefined(form.sym.Identifier)
                THEN compileDecl(cs, result, TopExpansion(form))
                ELSE [cs |-> cmpError(cs, form.line, "invalid macro invocation"),
                      result |-> result]
           [] OTHER ->
                [cs |-> cmpError(cs, form.line, "invalid declaration"), result |-> result]

\* a splice that compiles none of its entries
compileSplice_Nothing(cs, result, block) == [cs |-> cs, result |-> result]

\* case _splice: compileDecl on each entry of block[1:]
compileSplice(cs, result, block) ==
    IF block = <<>> \/ cs.status # "ok" THEN [cs |-> cs, result |-> result]
    ELSE LET r == compileDecl(cs, result, Head(block)) IN
         compileSplice(r.cs, r.result, Tail(block))

\* ------------------------------------------------------------ package clause
\* The first form of the file is [k, len, head, nameSym, nameValid, third]:
\* its kind, the length of the list, whether it starts with package, whether
\* its second element is a symbol and a valid package name, and its third
\* element ("none", "string" or "other").
PackageLine(doc) == [t |-> "package", kw |-> "package", name |-> S("p"), doc |-> doc]

compilePackageClause(cs, f) ==
    LET isList == f.k \in {"pair", "nil"}
        len == IF f.k = "pair" THEN f.len ELSE 0
        formLine == IF isList THEN 1 ELSE NoLine
        c0 == IF ~isList THEN readerError(cs, 1, "package clause is not a list") ELSE cs
        c1 == IF len < 2 \/ len > 3
              THEN cmpError(c0, formLine, "package clause has invalid length") ELSE c0
        c2 == IF len = 0 THEN runtimePanic(c1) ELSE c1
        c3 == IF len > 0 /\ f.head # "package"
              THEN cmpError(c2, formLine, "package clause starts with invalid keyword")
              ELSE c2
        c4 == IF len = 1 THEN runtimePanic(c3) ELSE c3
        c5 == IF len > 1 /\ ~f.nameSym
              THEN runtimePanic(cmpError(c4, formLine, "package name is not an identifier"))
              ELSE c4
        c6 == IF len > 1 /\ f.nameSym /\ ~f.nameValid
              THEN cmpError(c5, formLine, "invalid package name") ELSE c5
        c7 == IF len = 3 /\ f.third # "string"
              THEN cmpError(c6, formLine, "package comment is not a string") ELSE c6
    IN IF c7.status # "ok" THEN c7
       ELSE [c7 EXCEPT !.header = <<PackageLine(len = 3 /\ f.third = "string")>>]

\* ------------------------------------------------------------------ sources
\* Written symbols
Local(b) == [colon |-> FALSE, pkg |-> S(b), ident |-> EmptyStr, colon2 |-> FALSE]
Qual(p, i) == [colon |-> TRUE, pkg |-> S(p), ident |-> S(i), colon2 |-> FALSE]

\* Written specs
StringSpec(path) == [shape |-> "string", name |-> EmptyStr, path |-> path, call |-> FALSE, w |-> Local("x")]
ListSpec(name, path) == [shape |-> "list", name |-> S(name), path |-> path, call |-> FALSE, w |-> Local("x")]
QuotedSpec(name, path) == [shape |-> "quoted", name |-> S(name), path |-> path, call |-> FALSE, w |-> Local("x")]
VarSpec(shape, call, w) == [shape |-> shape, name |-> S("x"), path |-> EmptyStr, call |-> call, w |-> w]

\* Written top-level forms: multi says that the specs start on the line
\* after the one the form starts on; lex is the number of lexical errors
\* (such as NUL bytes in a string) that reading the form records
Src(k, head, w, multi, specs, lex) ==
    [k |-> k, head |-> head, w |-> w, multi |-> multi, specs |-> specs, lex |-> lex]

SrcEOF == Src("eof", "", Local("x"), FALSE, <<>>, 0)
SrcAtom == Src("atom", "", Local("x"), FALSE, <<>>, 0)      \* 42
SrcNil == Src("nil", "", Local("x"), FALSE, <<>>, 0)        \* ()

ImportSrc(multi, specs) == Src("pair", "import", Local("import"), multi, specs, 0)
UseSrc(multi, specs) == Src("pair", "use", Local("use"), multi, specs, 0)
VarSrc(multi, specs) == Src("pair", "var", Local("var"), multi, specs, 0)

PathFmt == S("fmt")                        \* "fmt"
PathAFmt == Str(FALSE, TRUE, "fmt", 0)     \* "a/fmt"
PathPlug == S("plug")                      \* "plug"
PathAPlug == Str(FALSE, TRUE, "plug", 0)   \* "a/plug"

ImportForms ==
    { ImportSrc(FALSE, <<StringSpec(PathFmt)>>),            \* (import "fmt")
      ImportSrc(FALSE, <<ListSpec("fmt1", PathAFmt)>>),     \* (import (fmt1 "a/fmt"))
      ImportSrc(FALSE, <<QuotedSpec("fmt", PathAFmt)>>),    \* (import '(fmt "a/fmt"))
      ImportSrc(TRUE, <<StringSpec(PathAFmt), ListSpec("fmt1", PathAFmt)>>),
                                                  \* (import "a/fmt" (fmt1 "a/fmt"))
      ImportSrc(TRUE, <<ListSpec("a-b", PathFmt)>>),        \* (import (a-b "fmt"))
      ImportSrc(FALSE, <<ListSpec("_", PathAFmt)>>),        \* (import (_ "a/fmt"))
      ImportSrc(FALSE, <<>>) }                              \* (import)

UseForms ==
    { UseSrc(FALSE, <<StringSpec(PathPlug)>>),              \* (use "plug")
      UseSrc(FALSE, <<ListSpec("plug", PathAPlug)>>),       \* (use (plug "a/plug"))
      UseSrc(TRUE, <<StringSpec(PathAPlug), ListSpec("a-b", PathPlug)>>),
                                                  \* (use "a/plug" (a-b "plug"))
      UseSrc(TRUE, <<StringSpec(PathPlug), ListSpec("plug1", PathAPlug)>>) }
                                                  \* (use "plug" (plug1 "a/plug"))

VarForms ==
    { VarSrc(FALSE, <<VarSpec("typed", FALSE, Local("int"))>>),    \* (var (x :type int))
      VarSrc(FALSE, <<VarSpec("value", FALSE, Qual("fmt", "X"))>>),  \* (var (x := fmt:X))
      VarSrc(FALSE, <<VarSpec("value", TRUE, Qual("fmt1", "X"))>>),  \* (var (x := (fmt1:X)))
      VarSrc(FALSE, <<VarSpec("value", FALSE, Qual("plug", "X"))>>), \* (var (x := plug:X))
      VarSrc(FALSE, <<VarSpec("value", TRUE, Qual("plug", "M"))>>),  \* (var (x := (plug:M)))
      VarSrc(FALSE, <<VarSpec("value", TRUE, Qual("plug", "X"))>>),  \* (var (x := (plug:X)))
      VarSrc(TRUE, <<VarSpec("bare", FALSE, Local("x")),
                     VarSpec("missing", FALSE, Local("x"))>>),       \* (var x (x))
      VarSrc(TRUE, <<VarSpec("value", FALSE, Local("_x"))>>) }       \* (var (x := _x))

OtherForms ==
    { Src("pair", "package", Local("package"), FALSE, <<>>, 0),    \* (package p)
      Src("pair", "other", Local("foo"), FALSE, <<>>, 0),          \* (foo)
      Src("pair", "other", Local("foo"), TRUE, <<>>, MaxLexErrs),  \* (foo "\0...\0")
      Src("pair", "macro", Qual("plug", "M"), FALSE, <<>>, 0),     \* (plug:M)
      Src("pair", "macro", Qual("plug", "X"), FALSE, <<>>, 0),     \* (plug:X)
      Src("pair", "splice", Local("splice"), FALSE,
          <<VarSrc(FALSE, <<VarSpec("value", FALSE, Qual("fmt", "X"))>>),
            ImportSrc(FALSE, <<StringSpec(PathFmt)>>)>>, 0) }
                                      \* (splice (var (x := fmt:X)) (import "fmt"))

TopForms == ImportForms \cup UseForms \cup VarForms \cup OtherForms \cup {SrcAtom, SrcNil}

\* The first form of the file
Clause(k, len, head, nameSym, nameValid, third) ==
    [k |-> k, len |-> len, head |-> head, nameSym |-> nameSym,
     nameValid |-> nameValid, third |-> third]

PackageClauses ==
    { Clause("pair", 2, "package", TRUE, TRUE, "none"),      \* (package p)
      Clause("pair", 3, "package", TRUE, TRUE, "string"),    \* (package p "doc")
      Clause("pair", 3, "package", TRUE, TRUE, "other"),     \* (package p 42)
      Clause("pair", 1, "package", FALSE, FALSE, "none"),    \* (package)
      Clause("pair", 2, "package", FALSE, FALSE, "none"),    \* (package 42)
      Clause("pair", 2, "package", TRUE, FALSE, "none"),     \* (package a-b)
      Clause("pair", 2, "other", TRUE, TRUE, "none"),        \* (foo p)
      Clause("pair", 4, "package", TRUE, TRUE, "string"),    \* (package p "doc" q)
      Clause("nil", 0, "", FALSE, FALSE, "none"),            \* ()
      Clause("atom", 0, "", FALSE, FALSE, "none"),           \* 42
      Clause("eof", 0, "", FALSE, FALSE, "none") }           \* the empty file

\* ------------------------------------------------------------------- reading
RECURSIVE AddErrors(_, _, _)
AddErrors(errors, line, msgs) ==
    IF msgs = <<>> THEN errors
    ELSE AddErrors(Append(errors, [line |-> line, msg |-> Head(msgs)]), line, Tail(msgs))

Repeat(n, msg) == [i \in 1..n |-> msg]

\* the element a written spec is read as: its symbol goes through readSymbol
ReadSpec(P2P, sp) ==
    LET r == readSymbol(P2P, sp.w) IN
    [shape |-> sp.shape, name |-> sp.name, path |-> sp.path,
     e |-> [k |-> IF sp.call THEN "call" ELSE IF r.form = BadForm THEN "bad" ELSE "sym",
            sym |-> r.form]]

SpecErrors(P2P, sp) == readSymbol(P2P, sp.w).errs

RECURSIVE Flatten(_)
Flatten(ss) == IF ss = <<>> THEN <<>> ELSE Head(ss) \o Flatten(Tail(ss))

\* Read: the form the reader returns for a written form that starts on
\* line, with the resolver map P2P
RECURSIVE ReadForm(_, _, _)
ReadForm(P2P, src, line) ==
    LET inner == IF src.multi THEN line + 1 ELSE line IN
    [k |-> src.k, head |-> src.head, sym |-> readSymbol(P2P, src.w).form,
     line |-> line, inner |-> inner, lex |-> src.lex,
     specs |-> IF src.head = "splice"
               THEN [i \in 1..Len(src.specs) |-> ReadForm(P2P, src.specs[i], inner)]
               ELSE [i \in 1..Len(src.specs) |-> ReadSpec(P2P, src.specs[i])]]

\* the messages the reader hands to rd.Error while it reads the form
RECURSIVE ReadErrors(_, _)
ReadErrors(P2P, src) ==
    Repeat(src.lex, "illegal rune NUL") \o readSymbol(P2P, src.w).errs \o
    (IF src.head = "splice"
     THEN Flatten([i \in 1..Len(src.specs) |-> ReadErrors(P2P, src.specs[i])])
     ELSE Flatten([i \in 1..Len(src.specs) |-> SpecErrors(P2P, src.specs[i])]))

\* -------------------------------------------------------------------- state
VARIABLES
    pc,             \* where compileFile is: "start", "imports", "uses", "decls",
                    \* "done" (Compile returned) or "panic" (Compile panicked)
    element,        \* the element the last Read of compileFile returned
    ok,             \* the ok of the last type assertion element.(*list.Pair)
    Errors,         \* rd.Errors
    header,         \* cmp.header
    result,         \* the body buffer of compileFile
    PackageToPath,  \* rd.PackageToPath
    PathToPackage,  \* rd.PathToPackage
    output,         \* the bytes Compile returned (<<>> is nil)
    err,            \* the error Compile returned (<<>> is nil)
    log,            \* the errors the last handler detected, and what became of them
    rdSyms,         \* the qualified symbols the last Read read
    rdErrs,         \* the number of errors the last Read appended
    encLog,         \* the calls of EncloseSymbol on qualified symbols so far
    first,          \* the first form of the file, as compilePackageClause read it
    phase,          \* the loop compileFile was in when it last read a form
    unread,         \* the forms of the file after the one compileFile stopped at
    maxClass,       \* the highest class of a top-level form seen so far
    misordered,     \* a package, import or use form came after a form of a later class
    nread,          \* top-level forms read after the package clause
    curLine,        \* the line the last form read ends on
    symbols,        \* lib.symbols: the interner's map
    interned,       \* the calls of Intern so far, with the handle each returned
    callers,        \* the goroutines inside Intern: where each is, and what it holds
    gensymCounter,  \* lib.gensymCounter
    gensyms,        \* recorded calls of Gensym: prefix, counter value, symbol returned
    reader,         \* the *Reader of the rune-level reader: src, offset, rdOffset, ch, errs
    forms,          \* what the calls of rd.Read() on reader returned so far
    params,         \* the call of compileParameters made, and what it returned
    mem,            \* the cells of package list, the lists built, the call made
    tables,         \* the read tables and the maps they point to
    handler         \* the call of a type, statement or expression handler made

vars == <<pc, element, ok, Errors, header, result, PackageToPath, PathToPackage,
          output, err, log, rdSyms, rdErrs, encLog, first, phase, unread, maxClass,
          misordered, nread, curLine, symbols, interned, callers,
          gensymCounter, gensyms, reader, forms, params, handler, tables, mem>>

compileVars == <<pc, element, ok, Errors, header, result, PackageToPath, PathToPackage,
                 output, err, log, rdSyms, rdErrs, encLog, first, phase, unread,
                 maxClass, misordered, nread, curLine>>

internVars == <<symbols, interned>>

concVars == <<callers>>

\* what the translation leaves alone
gensymVars == <<gensymCounter, gensyms>>

readerVars == <<reader, forms>>

\* the state of the handlers that are called on their own
laterVars == <<handler, tables, mem>>

notCompileVars == <<internVars, concVars, gensymVars, readerVars, params, laterVars>>

NoElement == ReadForm(EmptyMap, SrcEOF, 0)

Init ==
    /\ pc = "start"
    /\ element = NoElement
    /\ ok = FALSE
    /\ Errors = <<>>
    /\ header = <<>>
    /\ result = <<>>
    /\ PackageToPath = EmptyMap
    /\ PathToPackage = EmptyMap
    /\ output = <<>>
    /\ err = <<>>
    /\ log = <<>>
    /\ rdSyms = <<>>
    /\ rdErrs = 0
    /\ encLog = <<>>
    /\ first = Clause("eof", 0, "", FALSE, FALSE, "none")
    /\ phase = "start"
    /\ unread = <<>>
    /\ maxClass = 0
    /\ misordered = FALSE
    /\ nread = 0
    /\ curLine = 1
    /\ symbols = [x \in {} |-> 0]
    /\ interned = {}
    /\ callers = [t \in 1..MaxCallers |->
                     [pc |-> "idle", pkg |-> "", ident |-> "", ret |-> 0, overlap |-> {}]]
    /\ gensymCounter = 0
    /\ gensyms = {}
    /\ reader = [src |-> <<>>, offset |-> 0, rdOffset |-> 0, ch |-> " ", errs |-> <<>>]
    /\ forms = <<>>
    /\ params = [called |-> FALSE]
    /\ handler = [called |-> FALSE]
    /\ tables = [n |-> 0, ops |-> 0]
    /\ mem = [heap |-> <<>>, args |-> <<>>, op |-> "none", x |-> {}, res |-> <<>>,
              before |-> <<>>]

\* the state the handlers thread, as it is when a handler starts
CS == [Errors |-> Errors, header |-> header, PackageToPath |-> PackageToPath,
       PathToPackage |-> PathToPackage, status |-> "ok", log |-> <<>>, enc |-> encLog]

\* the qualified symbols written in a form
RECURSIVE Written(_)
Written(src) ==
    (IF src.w.colon THEN <<src.w>> ELSE <<>>) \o
    (IF src.head = "splice"
     THEN Flatten([i \in 1..Len(src.specs) |-> Written(src.specs[i])])
     ELSE Flatten([i \in 1..Len(src.specs) |->
                      IF src.specs[i].w.colon THEN <<src.specs[i].w>> ELSE <<>>]))

\* the class of a top-level form: 1 package clause, 2 import declaration,
\* 3 use declaration, 4 any other list form; 0 for what is not a list form
Class(src) ==
    CASE src.k # "pair" -> 0
      [] src.head = "package" -> 1
      [] src.head = "import" -> 2
      [] src.head = "use" -> 3
      [] OTHER -> 4

Max(a, b) == IF a > b THEN a ELSE b

OutOfOrder(src) == Class(src) \in 1..3 /\ Class(src) < maxClass

\* Compile returns nil and the error list: after a bailout, or when
\* compileFile finds the error list non-empty
ReturnNil(cs) ==
    /\ pc' = "done"
    /\ output' = <<>>
    /\ err' = cs.Errors
    /\ Errors' = cs.Errors
    /\ header' = <<>>
    /\ PackageToPath' = cs.PackageToPath
    /\ PathToPackage' = cs.PathToPackage
    /\ log' = cs.log
    /\ encLog' = cs.enc
    /\ UNCHANGED <<element, ok, rdSyms, rdErrs, unread, maxClass, misordered,
                   nread, curLine>>

\* a run-time panic leaves Compile: nothing is returned
Panic(cs) ==
    /\ pc' = "panic"
    /\ Errors' = cs.Errors
    /\ header' = <<>>
    /\ PackageToPath' = cs.PackageToPath
    /\ PathToPackage' = cs.PathToPackage
    /\ log' = cs.log
    /\ encLog' = cs.enc
    /\ UNCHANGED <<element, ok, output, err, rdSyms, rdErrs, unread, maxClass,
                   misordered, nread, curLine>>

\* cmp.reader.SkipSpace(); element = cmp.reader.Read(); form, ok = element.(*list.Pair)
\* keepOk: the loop of top-level declarations leaves ok alone on io.EOF
ReadNext(cs, src, nextPc, keepOk) ==
    LET el == ReadForm(cs.PackageToPath, src, curLine + 1)
        msgs == ReadErrors(cs.PackageToPath, src)
        ws == Written(src)
    IN /\ src.k = "eof" \/ nread < MaxForms
       /\ pc' = nextPc
       /\ element' = el
       /\ ok' = IF src.k = "eof" /\ keepOk THEN ok ELSE src.k \in {"pair", "nil"}
       /\ Errors' = AddErrors(cs.Errors, el.inner, msgs)
       /\ header' = cs.header
       /\ PackageToPath' = cs.PackageToPath
       /\ PathToPackage' = cs.PathToPackage
       /\ log' = cs.log
       /\ encLog' = cs.enc
       /\ rdSyms' = [i \in 1..Len(ws) |->
                        [w |-> ws[i],
                         known |-> ws[i].pkg \in DOMAIN cs.PackageToPath,
                         form |-> readSymbol(cs.PackageToPath, ws[i]).form]]
       /\ rdErrs' = Len(msgs)
       /\ maxClass' = Max(maxClass, Class(src))
       /\ misordered' = (misordered \/ OutOfOrder(src))
       /\ nread' = IF src.k = "eof" THEN nread ELSE nread + 1
       /\ curLine' = IF src.k = "eof" THEN curLine ELSE el.inner
       /\ UNCHANGED <<output, err, unread>>

Continue(cs, src, nextPc, keepOk) ==
    CASE cs.status = "panic" -> Panic(cs)
      [] cs.status = "bailout" -> ReturnNil(cs)
      [] OTHER -> ReadNext(cs, src, nextPc, keepOk)

\* ------------------------------------------------------------------ actions
\* compileFile up to the first loop: the package clause and the first Read
CompilePackageClause(clause, src) ==
    /\ pc = "start"
    /\ first' = clause
    /\ phase' = "start"
    /\ \E cs \in {compilePackageClause(CS, clause)} :
       IF cs.status = "ok" /\ Len(cs.Errors) # 0
       THEN ReturnNil(cs)
       ELSE Continue(cs, src, "imports", FALSE)
    /\ UNCHANGED result
    /\ UNCHANGED notCompileVars

\* one round of the loop over import declarations
ImportDecl(src) ==
    /\ pc = "imports"
    /\ ok /\ element.k = "pair" /\ element.head = "import"
    /\ phase' = "imports"
    /\ Continue(compileImportDecl(CS, element), src, "imports", FALSE)
    /\ UNCHANGED <<result, first>>
    /\ UNCHANGED notCompileVars

\* one round of the loop over use declarations
UseDecl(src) ==
    /\ pc \in {"imports", "uses"}
    /\ ok /\ element.k = "pair" /\ element.head = "use"
    /\ phase' = "uses"
    /\ Continue(compileUseDecl(CS, element), src, "uses", FALSE)
    /\ UNCHANGED <<result, first>>
    /\ UNCHANGED notCompileVars

\* one round of the loop over top-level declarations
TopLevelDecl(src) ==
    /\ pc \in {"imports", "uses", "decls"}
    /\ ok /\ element.k = "pair"
    /\ ~(pc = "imports" /\ element.head = "import")
    /\ ~(pc \in {"imports", "uses"} /\ element.head = "use")
    /\ phase' = "decls"
    /\ \E r \in {compileDecl(CS, result, element)} :
       /\ Continue(r.cs, src, "decls", TRUE)
       /\ result' = IF r.cs.status = "ok" THEN r.result ELSE result
    /\ UNCHANGED first
    /\ UNCHANGED notCompileVars

Newline == [t |-> "newline", kw |-> ""]

\* the end of compileFile without the test of the error list
Finish_KeepOutput(rest) ==
    /\ pc \in {"imports", "uses", "decls"}
    /\ ~(ok /\ element.k = "pair")
    /\ Len(rest) > 0 => element.k # "eof" /\ nread < MaxForms
    /\ LET cs == IF ~ok THEN readerError(CS, element.line, "invalid top-level form ")
                 ELSE CS
       IN /\ Errors' = cs.Errors
          /\ log' = cs.log
          /\ err' = cs.Errors
          /\ output' = header \o <<Newline>> \o result
    /\ pc' = "done"
    /\ header' = <<>>
    /\ unread' = rest
    /\ misordered' = (misordered \/ \E i \in 1..Len(rest) : OutOfOrder(rest[i]))
    /\ UNCHANGED <<element, ok, result, PackageToPath, PathToPackage, rdSyms, rdErrs,
                   encLog, first, phase, maxClass, nread, curLine>>
    /\ UNCHANGED notCompileVars

\* the end of compileFile, and the return of Compile; rest is the part of
\* the file after the element compileFile stopped at
Finish(rest) ==
    /\ pc \in {"imports", "uses", "decls"}
    /\ ~(ok /\ element.k = "pair")
    /\ Len(rest) > 0 => element.k # "eof" /\ nread < MaxForms
    /\ LET cs == IF ~ok THEN readerError(CS, element.line, "invalid top-level form ")
                 ELSE CS
       IN /\ Errors' = cs.Errors
          /\ log' = cs.log
          /\ err' = cs.Errors
          /\ output' = IF Len(cs.Errors) # 0 THEN <<>>
                       ELSE header \o <<Newline>> \o result
    /\ pc' = "done"
    /\ header' = <<>>
    /\ unread' = rest
    /\ misordered' = (misordered \/ \E i \in 1..Len(rest) : OutOfOrder(rest[i]))
    /\ UNCHANGED <<element, ok, result, PackageToPath, PathToPackage, rdSyms, rdErrs,
                   encLog, first, phase, maxClass, nread, curLine>>
    /\ UNCHANGED notCompileVars

Rests == {<<>>} \cup {<<f>> : f \in TopForms}

\* ----------------------------------------------------------------- interner
Packages == {"", "fmt"}
Identifiers == {"x", "fmt"}

NewHandle == Cardinality(DOMAIN symbols) + 1

\* Intern with a map keyed by the identifier alone
Intern_ByIdentifier(pkg, ident) ==
    LET key == <<"", ident>> IN
    IF key \in DOMAIN symbols
    THEN [handle |-> symbols[key], symbols |-> symbols]
    ELSE [handle |-> NewHandle, symbols |-> Put(symbols, key, NewHandle)]

\* lib.Intern: symbols.LoadOrStore(sym, &sym)
Intern(pkg, ident) ==
    LET key == <<pkg, ident>> IN
    IF key \in DOMAIN symbols
    THEN [handle |-> symbols[key], symbols |-> symbols]
    ELSE [handle |-> NewHandle, symbols |-> Put(symbols, key, NewHandle)]

InternCall(pkg, ident) ==
    /\ Cardinality(interned) < MaxInterns
    /\ LET r == Intern(pkg, ident) IN
       /\ symbols' = r.symbols
       /\ interned' = interned \cup
             {[pkg |-> pkg, ident |-> ident, handle |-> r.handle, n |-> Cardinality(interned)]}
    /\ UNCHANGED <<compileVars, concVars, gensymVars, readerVars, params, laterVars>>

\* ------------------------------------------------------------ specifications
Next ==
    \/ \E clause \in PackageClauses, src \in TopForms \cup {SrcEOF} :
          CompilePackageClause(clause, src)
    \/ \E src \in TopForms \cup {SrcEOF} : ImportDecl(src)
    \/ \E src \in TopForms \cup {SrcEOF} : UseDecl(src)
    \/ \E src \in TopForms \cup {SrcEOF} : TopLevelDecl(src)
    \/ \E rest \in Rests : Finish(rest)

Spec == Init /\ [][Next]_vars

NextIntern == \E pkg \in Packages, ident \in Identifiers : InternCall(pkg, ident)

SpecIntern == Init /\ [][NextIntern]_vars

\* ------------------------------------------------------------------- claims
Returned == pc = "done"

\* what the output holds
OutIdx == 1..Len(output)
AutoLines(p) == {i \in OutIdx : output[i].t = "import" /\ output[i].path = p}
DeclLines(p) ==
    UNION {{<<i, j>> : j \in {j \in 1..Len(output[i].decls) : output[i].decls[j].path = p}} :
              i \in {i \in OutIdx : output[i].t = "decl" /\ output[i].kw = "import"}}
NamedDeclLines(p) ==
    {l \in DeclLines(p) : output[l[1]].decls[l[2]].name # Underscore}
EmittedIds ==
    UNION {UNION {{output[i].decls[j].ids[k] : k \in 1..Len(output[i].decls[j].ids)} :
                     j \in 1..Len(output[i].decls)} :
              i \in {i \in OutIdx : output[i].t = "decl" /\ output[i].kw \notin {"import", "use"}}}
QualifiedIds == {id \in EmittedIds : id.Package # EmptyStr}

\* C1: Compile returns output only when the error list is empty at the end;
\* with a non-empty list (also after the bailout) the output is nil and the
\* list is what Compile returns.
C1_OutputOnlyWithoutErrors ==
    Returned =>
        /\ (Len(Errors) # 0 => output = <<>> /\ err = Errors)
        /\ (output # <<>> => Len(Errors) = 0 /\ err = <<>>)

C1_Witness ==
    /\ Returned /\ output = <<>> /\ Len(err) > MaxErrors
    /\ \E i \in 1..Len(log) : log[i].out = "bailout"

\* C2 (as claimed): every error the translator detects is appended to the
\* error list with the position of the offending form; none is dropped.
C2_EveryErrorAppended ==
    \A i \in 1..Len(log) :
        /\ log[i].out = "added"
        /\ Errors[log[i].n + 1].line = log[i].line

\* C2 (amended): an error reported through cmp.error is appended with the
\* position of the offending form when the last entry of the list is on
\* another line and the list holds at most MaxErrors entries; it is dropped
\* when the last entry is on the same line; otherwise translation bails out.
\* An error reported through rd.Error is always appended.
C2_AppendedUnlessSameLineOrBailout ==
    \A i \in 1..Len(log) :
        LET e == log[i]
            appended == /\ e.out = "added"
                        /\ Len(Errors) > e.n
                        /\ Errors[e.n + 1].line = e.line
        IN IF e.via = "rd.Error" THEN appended
           ELSE IF e.n > 0 /\ e.last = e.line THEN e.out = "dropped"
           ELSE IF e.n > MaxErrors THEN e.out = "bailout" /\ Returned /\ err = Errors
           ELSE appended

C2_Witness ==
    \E i, j \in 1..Len(log) :
        /\ log[i].via = "cmp.error" /\ log[i].out = "added"
        /\ log[j].via = "cmp.error" /\ log[j].out = "dropped"

\* C3: for the malformed package clause (package) the translator records an
\* error and Compile returns normally with the error list; it does not
\* abort with a run-time panic.
C3_MalformedClauseReturns ==
    (pc # "start" /\ first = Clause("pair", 1, "package", FALSE, FALSE, "none")) =>
        /\ Returned
        /\ Len(err) > 0

\* C4: a package, import or use form that appears after a form of a later
\* class is recorded as an error and no output is produced.
C4_OutOfOrderRejected ==
    (Returned /\ misordered) => (Len(err) > 0 /\ output = <<>>)

\* C5: a valid package clause followed by import and use declarations, no
\* top-level declaration and the end of input translates without error.
C5_NoDeclarationsNoError ==
    [][(/\ pc \in {"imports", "uses"}
        /\ element.k = "eof"
        /\ Len(Errors) = 0
        /\ pc' = "done")
       => (Len(Errors') = 0 /\ output' # <<>>)]_vars

\* the file was translated up to the end of input
ReadToEnd == Returned /\ element.k = "eof"

\* C6 (as claimed): for every path an emitted qualified identifier resolves
\* to, the header of the output holds exactly one import line (stated for
\* the files that are translated up to the end of input).
C6_ExactlyOneImportLine ==
    (ReadToEnd /\ output # <<>>) =>
        \A id \in QualifiedIds :
            /\ id.Package \in DOMAIN PackageToPath
            /\ LET p == PackageToPath[id.Package] IN
               Cardinality(AutoLines(p)) + Cardinality(DeclLines(p)) = 1

\* C6 (amended): for every such path the header holds at least one import
\* line: one for each unquoted import spec that declares the path and,
\* exactly when no unquoted import spec with a name other than _ declares
\* it, one more line, added when the first such identifier is emitted.
C6_ImportLinePerPath ==
    (Returned /\ output # <<>>) =>
        \A id \in QualifiedIds :
            /\ id.Package \in DOMAIN PackageToPath
            /\ LET p == PackageToPath[id.Package] IN
               /\ Cardinality(AutoLines(p)) + Cardinality(DeclLines(p)) >= 1
               /\ Cardinality(AutoLines(p)) <= 1
               /\ (Cardinality(AutoLines(p)) = 1 <=> NamedDeclLines(p) = {})
               /\ \A i \in AutoLines(p) : output[i].name = id.Package

C6_Witness ==
    /\ ReadToEnd /\ output # <<>>
    /\ \E id \in QualifiedIds :
          /\ AutoLines(PackageToPath[id.Package]) # {}
          /\ DeclLines(PackageToPath[id.Package]) # {}

C8_NoSentinelInOutput ==
    ReadToEnd =>
        /\ \A i \in OutIdx :
              output[i].t = "import" =>
                  ~HasSentinel(output[i].path) /\ ~HasSentinel(output[i].name)
        /\ \A id \in EmittedIds : ~HasSentinel(id.Package)

\* C9: when the reader reads a package-qualified symbol whose short package
\* name the resolver does not know, it returns a bad-form marker and
\* appends an entry to the error list.
C9_UnknownPackageIsAnError ==
    \A i \in 1..Len(rdSyms) :
        ~rdSyms[i].known => (rdSyms[i].form = BadForm /\ rdErrs > 0)

\* C10: two calls of Intern return the same handle if and only if they were
\* given the same package and the same identifier.
C10_SameHandleIffSameKey ==
    \A a, b \in interned :
        (a.handle = b.handle) <=> (a.pkg = b.pkg /\ a.ident = b.ident)

C10_Witness ==
    \E a, b, c \in interned :
        /\ a.n # b.n /\ a.pkg = b.pkg /\ a.ident = b.ident /\ a.handle = b.handle
        /\ c.ident = a.ident /\ c.pkg # a.pkg /\ c.handle # a.handle

\* --------------------------------------------------------------- splice
\* (splice form): the list Read returns for the form wrapped in a splice,
\* written on the line of the form
Spliced(form) == [form EXCEPT !.head = "splice", !.specs = <<form>>]

\* what compileFile does with the form it just read, in the loop it is in
DirectDecl ==
    IF pc = "imports" /\ element.head = "import"
    THEN [cs |-> compileImportDecl(CS, element), result |-> result]
    ELSE IF pc \in {"imports", "uses"} /\ element.head = "use"
    THEN [cs |-> compileUseDecl(CS, element), result |-> result]
    ELSE compileDecl(CS, result, element)

\* the same emission and the same error list
SameEmission(a, b) ==
    /\ a.cs.status = b.cs.status
    /\ a.cs.header = b.cs.header
    /\ a.result = b.result
    /\ a.cs.Errors = b.cs.Errors

\* C19 as stated: wrapping any top-level form (declaration, import or use)
\* in (splice ...) produces the same Go emission and the same error list as
\* the form itself.
C19_SpliceOfAnyTopLevelForm ==
    (pc \in {"imports", "uses", "decls"} /\ ok /\ element.k = "pair") =>
        SameEmission(compileDecl(CS, result, Spliced(element)), DirectDecl)

\* C19, amended: wrapping a form that compileFile compiles as a top-level
\* declaration (with compileDecl) in (splice ...) produces the same Go
\* emission and the same error list as the form itself.
C19_SpliceOfDeclaration ==
    (/\ pc \in {"imports", "uses", "decls"} /\ ok /\ element.k = "pair"
     /\ ~(pc = "imports" /\ element.head = "import")
     /\ ~(pc \in {"imports", "uses"} /\ element.head = "use")) =>
        SameEmission(compileDecl(CS, result, Spliced(element)),
                     compileDecl(CS, result, element))

C19_Witness ==
    /\ pc \in {"imports", "uses", "decls"} /\ ok /\ element.k = "pair"
    /\ element.head = "var"
    /\ compileDecl(CS, result, Spliced(element)).cs.status = "ok"
    /\ compileDecl(CS, result, Spliced(element)).result # result
    /\ compileDecl(CS, result, Spliced(element)).cs.header # header

\* ------------------------------------------------------ concurrent callers
\* Each goroutine calls Intern once.  The pointer &sym it allocates is
\* identified with the goroutine; sync.Map.LoadOrStore is one atomic step.

\* LoadOrStore as Store: the caller's own pointer replaces what is stored
LoadOrStore_Store(m, key, ptr) == [actual |-> ptr, m |-> Put(m, key, ptr)]

\* sync.Map.LoadOrStore(key, ptr)
LoadOrStore(m, key, ptr) ==
    IF key \in DOMAIN m THEN [actual |-> m[key], m |-> m]
    ELSE [actual |-> ptr, m |-> Put(m, key, ptr)]

\* Intern, line 27: sym := Symbol{pkg, ident}
InternEnter(t, pkg, ident) ==
    /\ callers[t].pc = "idle"
    /\ callers' = [callers EXCEPT ![t] = [@ EXCEPT !.pc = "made", !.pkg = pkg,
                                                    !.ident = ident]]
    /\ UNCHANGED <<compileVars, internVars, gensymVars, readerVars, params, laterVars>>

\* Intern, lines 28-29: actual, _ := symbols.LoadOrStore(sym, &sym); return
InternLoadOrStore(t) ==
    /\ callers[t].pc = "made"
    /\ \E r \in {LoadOrStore(symbols, <<callers[t].pkg, callers[t].ident>>, t)} :
          /\ symbols' = r.m
          /\ callers' = [callers EXCEPT ![t] =
                 [@ EXCEPT !.pc = "done", !.ret = r.actual,
                           !.overlap = {u \in 1..MaxCallers \ {t} :
                                           /\ callers[u].pc = "made"
                                           /\ callers[u].pkg = callers[t].pkg
                                           /\ callers[u].ident = callers[t].ident}]]
    /\ UNCHANGED <<compileVars, interned, gensymVars, readerVars, params, laterVars>>

NextConc ==
    \/ \E t \in 1..MaxCallers, pkg \in Packages, ident \in Identifiers :
          InternEnter(t, pkg, ident)
    \/ \E t \in 1..MaxCallers : InternLoadOrStore(t)

SpecConc == Init /\ [][NextConc]_vars

\* C11: when several goroutines call Intern concurrently with the same
\* package and identifier, all of them receive the same handle, under every
\* interleaving of their steps.
C11_ConcurrentCallersAgree ==
    \A t, u \in 1..MaxCallers :
        (/\ callers[t].pc = "done" /\ callers[u].pc = "done"
         /\ callers[t].pkg = callers[u].pkg
         /\ callers[t].ident = callers[u].ident)
        => callers[t].ret = callers[u].ret

\* two calls that overlapped (both past line 27 before either stored), and a
\* third with the same key, all returned one handle
C11_Witness ==
    \E t, u \in 1..MaxCallers :
        /\ t # u
        /\ callers[t].pc = "done" /\ callers[u].pc = "done"
        /\ u \in callers[t].overlap
        /\ callers[t].ret = callers[u].ret
        /\ callers[t].ret = t

\* -------------------------------------------------------------------- Gensym
\* Identifiers are sequences of characters here, so that the text Sprintf
\* builds from the prefix and the counter is computed.

\* fmt.Sprintf("%v", n) for n >= 0
RECURSIVE Decimal(_)
Decimal(n) ==
    LET d == <<"0", "1", "2", "3", "4", "5", "6", "7", "8", "9">>[(n % 10) + 1]
    IN IF n < 10 THEN <<d>> ELSE Decimal(n \div 10) \o <<d>>

\* the identifier Gensym builds for the counter value ncounter
GensymIdentifier(prefix, ncounter) ==
    IF prefix = <<>> THEN <<"_", "g">> \o Decimal(ncounter)
    ELSE IF prefix[1] = "_" THEN prefix \o Decimal(ncounter)
    ELSE <<"_">> \o prefix \o Decimal(ncounter)

\* prefixes: "", "g", "g1", "_g"
Prefixes == {<<>>, <<"g">>, <<"g", "1">>, <<"_", "g">>}

\* lib.Gensym(prefix): the atomic increment and the symbol Intern returns
\* for the identifier; watch says that the call is one of those recorded
Gensym(prefix, watch) ==
    /\ gensymCounter < MaxGensyms
    /\ watch => Cardinality(gensyms) < MaxWatched
    /\ gensymCounter' = gensymCounter + 1
    /\ gensyms' = IF watch
                  THEN gensyms \cup
                       {[prefix |-> prefix, n |-> gensymCounter + 1,
                         sym |-> Sym(<<>>, GensymIdentifier(prefix, gensymCounter + 1))]}
                  ELSE gensyms
    /\ UNCHANGED <<compileVars, internVars, concVars, readerVars, params, laterVars>>

NextGensym == \E prefix \in Prefixes, watch \in BOOLEAN : Gensym(prefix, watch)

SpecGensym == Init /\ [][NextGensym]_vars

\* C12: any two calls of Gensym, with the same or with different prefixes,
\* return distinct symbols.
C12_GensymsDistinct ==
    \A a, b \in gensyms : a.n # b.n => a.sym # b.sym

\* ------------------------------------------------------- reader: the runes
\* A source is a sequence of runes, each a one-character string; offsets
\* count runes from 0.  The reader is the record
\*   [src, offset, rdOffset, ch, errs]
\* with errs the entries of rd.Errors as [off, msg].

Backquote == "BQ"   \* the rune 96, the grave accent

\* the printable ASCII runes, ' ' (32) to '~' (126)
Ascii ==
    <<
      " ", "!", "\"", "#", "$", "%", "&", "'", "(", ")", "*", "+", ",", "-", ".", "/",
      "0", "1", "2", "3", "4", "5", "6", "7", "8", "9", ":", ";", "<", "=", ">", "?",
      "@", "A", "B", "C", "D", "E", "F", "G", "H", "I", "J", "K", "L", "M", "N", "O",
      "P", "Q", "R", "S", "T", "U", "V", "W", "X", "Y", "Z", "[", "\\", "]", "^", "_",
      Backquote, "a", "b", "c", "d", "e", "f", "g", "h", "i", "j", "k", "l", "m", "n", "o",
      "p", "q", "r", "s", "t", "u", "v", "w", "x", "y", "z", "{", "|", "}", "~" >>

EOF == "EOF"    \* the rune -1; the rune 0 is "NUL"

ArabicThree == "U+0663"   \* the rune 1635, ARABIC-INDIC DIGIT THREE: a digit that is not ASCII

Digits == {"0", "1", "2", "3", "4", "5", "6", "7", "8", "9"}

\* the code point of a rune
Code(r) ==
    CASE r = "\n" -> 10
      [] r = "\t" -> 9
      [] r = "NUL" -> 0
      [] r = EOF -> 0 - 1
      [] r = ArabicThree -> 1635
      [] OTHER -> 31 + (CHOOSE i \in 1..Len(Ascii) : Ascii[i] = r)

\* '0' <= r && r <= '9' || r >= utf8.RuneSelf && unicode.IsDigit(r)
isDigit(r) == r \in Digits \/ r = ArabicThree

\* '!' <= r && r <= '~' || unicode.IsLetter(r) || unicode.IsDigit(r)
validRune(r) == r \in {Ascii[i] : i \in 2..Len(Ascii)} \/ r = ArabicThree

\* StandardTable.terminating
terminating(r) == r \in {"\"", "'", "(", ")", ",", ";", Backquote}

\* (rd *Reader) Error
rdError(rd, off, msg) == [rd EXCEPT !.errs = Append(@, [off |-> off, msg |-> msg])]

NextRune(rd) ==
    IF rd.rdOffset < Len(rd.src)
    THEN [(IF rd.src[rd.rdOffset + 1] = "NUL"
           THEN rdError(rd, rd.rdOffset, "illegal rune NUL") ELSE rd)
          EXCEPT !.offset = rd.rdOffset,
                 !.rdOffset = rd.rdOffset + 1,
                 !.ch = rd.src[rd.rdOffset + 1]]
    ELSE [rd EXCEPT !.offset = Len(rd.src), !.ch = EOF]

\* NewReader: the reader on a source, after its first NextRune
NewReader(src) ==
    NextRune([src |-> src, offset |-> 0, rdOffset |-> 0, ch |-> " ", errs |-> <<>>])

\* the sources: every text of at most MaxTokens of the tokens, and literals
Tokens == {<<"#", "|">>, <<"|", "#">>, <<"x">>, <<" ">>, <<";">>, <<"\n">>}

RECURSIVE TokenSources(_)
TokenSources(n) ==
    IF n = 0 THEN {<<>>}
    ELSE TokenSources(n - 1) \cup {s \o t : s \in TokenSources(n - 1), t \in Tokens}

NumberLine ==
    <<"4", "2", " ", "0", "b", "1", "0", "1", " ",
      "0", "x", "B", "a", "d", "_", "F", "a", "c", "e", " ",
      "1", ".", "5", "e", "2", " ", "0", "x", "1", "p", "-", "2", " ", "3", "i">>

\* the numeric escapes of the code point 65, and the ordinary rune A
NumericEscapes ==
    {<<"\\", "x", "4", "1">>, <<"\\", "1", "0", "1">>,
     <<"\\", "u", "0", "0", "4", "1">>,
     <<"\\", "U", "0", "0", "0", "0", "0", "0", "4", "1">>}

\* what follows the escape in a string literal: the rest of the literal and
\* the text after it
StringTails ==
    {<<"\"">>, <<"B", "\"">>, <<"\"", " ", "b">>, <<"B", "C", "\"", " ", "b">>}

\* the runes c of the rune literals #\c and the texts after them
RuneRunes == {"a", "A", "1", "x", "~"}
RuneTails == {<<>>, <<" ", "b">>, <<"b">>, <<" ", "(", "b", " ", "7", ")">>}

\* texts with a block comment inside a block comment
NestedComments ==
    {<<"#", "|", "#", "|", "a", "|", "#", "b", "|", "#", "c">>,
     <<"#", "|", "a", "#", "|", "#", "|", "b", "|", "#", "|", "#", "|", "#", "(", "c", ")">>}

\* a comment between the last element of a list and its closing parenthesis
ListPrefixes == {<<"(", "x", " ">>, <<"(", "x", " ", "y">>}
TrailingComments ==
    {<<";", "c", "\n">>, <<"#", "|", "c", "|", "#">>, <<"#", ";", "z">>, <<"#", ";", "z", " ">>}

\* texts with a digit that is not ASCII
ForeignDigits == {<<ArabicThree>>, <<"x", " ", ArabicThree, " ", "y">>}

Sources ==
    TokenSources(MaxTokens) \cup {NumberLine} \cup NestedComments \cup ForeignDigits
    \cup {p \o c \o <<")">> : p \in ListPrefixes, c \in TrailingComments \cup {<<>>}}
    \cup {<<"\"">> \o e \o t : e \in NumericEscapes \cup {<<"A">>}, t \in StringTails}
    \cup {<<"#", "\\", c>> \o t : c \in RuneRunes, t \in RuneTails}

RECURSIVE SkipSpace(_)
SkipSpace(rd) ==
    IF rd.ch \in {" ", "\n", "\t"} THEN SkipSpace(NextRune(rd)) ELSE rd

\* readIdentifier: the reader after it and the text in buf
RECURSIVE readIdentifier(_, _)
readIdentifier(rd, buf) ==
    IF ~validRune(rd.ch) \/ rd.ch = ":" \/ terminating(rd.ch)
    THEN [rd |-> rd, text |-> buf]
    ELSE readIdentifier(NextRune(rd), Append(buf, rd.ch))

hasUnderscorePrefix(text) == text # <<"_">> /\ Len(text) > 0 /\ text[1] = "_"

\* the forms Read returns; io.EOF is [k |-> "eof"], and [k |-> "nil"] is the
\* nil a macro returns for a comment
BadFormAt(from) == [k |-> "bad", from |-> from]
SymbolForm(pkg, ident) == [k |-> "sym", pkg |-> pkg, ident |-> ident]

\* readSymbol after the second readIdentifier returned i; the resolver
\* knows no package, so that only "" and "_keyword" resolve
readQualified(i, offset, pkg, pkgOk) ==
    LET r1 == IF i.rd.ch = ":" THEN rdError(i.rd, offset, "invalid package prefix")
              ELSE IF i.text = <<>> THEN rdError(i.rd, offset, "empty identifier")
              ELSE i.rd
        r2 == IF hasUnderscorePrefix(i.text) THEN rdError(r1, offset, "invalid identifier")
              ELSE r1
        good == pkgOk /\ i.rd.ch # ":" /\ i.text # <<>> /\ ~hasUnderscorePrefix(i.text)
    IN [rd |-> r2,
        form |-> IF good /\ pkg = <<"_keyword">> THEN SymbolForm(pkg, i.text)
                 ELSE BadFormAt(offset)]

\* readSymbol after the first readIdentifier returned p
readSymbolRest(p, offset) ==
    LET bad == hasUnderscorePrefix(p.text)
        r1 == IF bad THEN rdError(p.rd, offset, "invalid package name or identifier")
              ELSE p.rd
    IN IF p.rd.ch # ":"
       THEN [rd |-> IF p.text = <<>> THEN rdError(r1, offset, "empty identifier") ELSE r1,
             form |-> IF ~bad /\ p.text # <<>> THEN SymbolForm(<<>>, p.text)
                      ELSE BadFormAt(offset)]
       ELSE readQualified(readIdentifier(NextRune(r1), <<>>), offset,
                          IF p.text = <<>> THEN <<"_keyword">> ELSE p.text, ~bad)

\* ---------------------------------------------------- reader: the numbers
isNumRune(r) ==
    r \in Digits \/ r \in {"_", "x", "X", "b", "B", "o", "O", ".", "e", "E", "p", "P", "+", "-"}

\* the value of a digit of a literal; 99 for every other rune
DigitVal(r) ==
    IF r \in Digits THEN Code(r) - 48
    ELSE IF r \in {"a", "b", "c", "d", "e", "f"} THEN Code(r) - 87
    ELSE IF r \in {"A", "B", "C", "D", "E", "F"} THEN Code(r) - 55
    ELSE 99

\* the value of a run of digits and separators in a base
RECURSIVE digitsValue(_, _)
digitsValue(s, base) ==
    IF s = <<>> THEN 0
    ELSE IF s[Len(s)] = "_" THEN digitsValue(SubSeq(s, 1, Len(s) - 1), base)
    ELSE digitsValue(SubSeq(s, 1, Len(s) - 1), base) * base + DigitVal(s[Len(s)])

\* the index after the run of digits and separators that starts at i
digitsEnd(s, i, base) ==
    CHOOSE j \in i..(Len(s) + 1) :
        /\ \A k \in i..(j - 1) : s[k] = "_" \/ DigitVal(s[k]) < base
        /\ j = Len(s) + 1 \/ ~(s[j] = "_" \/ DigitVal(s[j]) < base)

\* the separators of a literal stand after a digit or the base prefix and
\* before a digit
underscoreOK(s, base, start) ==
    \A k \in 1..Len(s) :
        s[k] = "_" =>
            /\ k > 1 /\ (DigitVal(s[k - 1]) < base \/ (k = start /\ start > 1))
            /\ k < Len(s) /\ DigitVal(s[k + 1]) < base

\* big.Int.SetString(str, 0) on a text that starts with a digit
SetString(str) ==
    LET two == Len(str) >= 2 /\ str[1] = "0"
        base == IF two /\ str[2] \in {"x", "X"} THEN 16
                ELSE IF two /\ str[2] \in {"b", "B"} THEN 2
                ELSE IF two THEN 8
                ELSE 10
        start == IF two /\ str[2] \in {"x", "X", "b", "B", "o", "O"} THEN 3
                 ELSE IF two THEN 2 ELSE 1
        digits == SubSeq(str, start, Len(str))
        good == /\ \A k \in 1..Len(digits) : digits[k] = "_" \/ DigitVal(digits[k]) < base
                /\ \E k \in 1..Len(str) : str[k] # "_" /\ (k >= start \/ start = 2)
                /\ underscoreOK(str, base, start)
    IN [ok |-> good, val |-> IF good THEN digitsValue(digits, base) ELSE 0]

RECURSIVE Pow(_, _)
Pow(b, n) == IF n <= 0 THEN 1 ELSE b * Pow(b, n - 1)

\* num/den in lowest terms
Ratio(num, den) ==
    LET g == CHOOSE g \in 1..den :
                 /\ num % g = 0 /\ den % g = 0
                 /\ \A h \in (g + 1)..den : ~(num % h = 0 /\ den % h = 0)
    IN [num |-> num \div g, den |-> den \div g]

\* strconv.ParseFloat(str, 64) on a text that starts with a digit: the
\* rational number the text denotes
ParseFloat(str) ==
    LET hex == Len(str) > 2 /\ str[1] = "0" /\ str[2] \in {"x", "X"}
        base == IF hex THEN 16 ELSE 10
        i0 == IF hex THEN 3 ELSE 1
        i1 == digitsEnd(str, i0, base)
        dot == i1 <= Len(str) /\ str[i1] = "."
        i2 == IF dot THEN digitsEnd(str, i1 + 1, base) ELSE i1
        frac == IF dot THEN SubSeq(str, i1 + 1, i2 - 1) ELSE <<>>
        nfrac == Cardinality({k \in 1..Len(frac) : frac[k] # "_"})
        hasExp == i2 <= Len(str) /\ str[i2] \in (IF hex THEN {"p", "P"} ELSE {"e", "E"})
        signed == hasExp /\ i2 + 1 <= Len(str) /\ str[i2 + 1] \in {"+", "-"}
        i3 == IF signed THEN i2 + 2 ELSE i2 + 1
        i4 == IF hasExp /\ i3 <= Len(str) THEN digitsEnd(str, i3, 10) ELSE i2
        e == IF ~hasExp THEN 0
             ELSE IF signed /\ str[i2 + 1] = "-"
             THEN 0 - digitsValue(SubSeq(str, i3, i4 - 1), 10)
             ELSE digitsValue(SubSeq(str, i3, i4 - 1), 10)
        scale == IF hex THEN e - 4 * nfrac ELSE e - nfrac
        two == IF hex THEN 2 ELSE 10
        good == /\ \E k \in i0..(i2 - 1) : str[k] \notin {"_", "."}
                /\ hex => hasExp
                /\ hasExp => i3 <= Len(str) /\ isDigit(str[i3])
                /\ i4 = Len(str) + 1
                /\ underscoreOK(str, base, i0)
    IN [ok |-> good,
        val |-> IF good
                THEN Ratio(digitsValue(SubSeq(str, i0, i1 - 1) \o frac, base) * Pow(two, scale),
                           Pow(two, 0 - scale))
                ELSE Ratio(0, 1)]

\* readNumber's loop: the reader after it and the text in buf
RECURSIVE readNumRunes(_, _)
readNumRunes(rd, buf) ==
    IF isNumRune(rd.ch) THEN readNumRunes(NextRune(rd), Append(buf, rd.ch))
    ELSE [rd |-> rd, text |-> buf]

\* readNumber after its loop returned p; f is what ParseFloat and n what
\* SetString return for the text
numberForm(p, offset, f, n) ==
    IF p.rd.ch = "i"
    THEN IF f.ok
         THEN [rd |-> NextRune(p.rd),
               form |-> [k |-> "complex", num |-> f.val.num, den |-> f.val.den]]
         ELSE [rd |-> rdError(NextRune(p.rd), offset, "invalid syntax"),
               form |-> BadFormAt(offset)]
    ELSE IF \E k \in 1..Len(p.text) : p.text[k] \in {".", "e", "E", "p", "P"}
    THEN IF f.ok
         THEN [rd |-> p.rd, form |-> [k |-> "float", num |-> f.val.num, den |-> f.val.den]]
         ELSE [rd |-> rdError(p.rd, offset, "invalid syntax"), form |-> BadFormAt(offset)]
    ELSE IF n.ok
    THEN [rd |-> p.rd, form |-> [k |-> "int", val |-> n.val]]
    ELSE [rd |-> rdError(p.rd, offset, "invalid number syntax"), form |-> BadFormAt(offset)]

readNumber(p, offset) == numberForm(p, offset, ParseFloat(p.text), SetString(p.text))

\* ---------------------------------------- reader: strings, runes, comments
\* readHexBytes with n digits to go: the reader after it, the value, ok
RECURSIVE readHexBytes(_, _, _)
readHexBytes(rd, n, buf) ==
    IF n = 0 THEN [rd |-> rd, val |-> buf, ok |-> TRUE]
    ELSE IF DigitVal(rd.ch) < 16
    THEN readHexBytes(NextRune(rd), n - 1, buf * 16 + DigitVal(rd.ch))
    ELSE [rd |-> rdError(rd, rd.offset, "invalid hex digit"), val |-> buf, ok |-> FALSE]

\* readOctalByte with n digits to go
RECURSIVE readOctalByte(_, _, _)
readOctalByte(rd, n, buf) ==
    IF n = 0 THEN [rd |-> rd, val |-> buf, ok |-> TRUE]
    ELSE IF DigitVal(rd.ch) < 8
    THEN readOctalByte(NextRune(rd), n - 1, buf * 8 + DigitVal(rd.ch))
    ELSE [rd |-> rdError(rd, rd.offset, "invalid octal digit"), val |-> buf, ok |-> FALSE]

\* the code points of the one-letter escapes of stringMacro
EscapeCode(r) ==
    CASE r = "a" -> 7 [] r = "b" -> 8 [] r = "f" -> 12 [] r = "n" -> 10
      [] r = "r" -> 13 [] r = "t" -> 9 [] r = "v" -> 11
      [] r = "\\" -> 92 [] r = "\"" -> 34 [] r = "s" -> 32 [] r = "'" -> 39

\* stringMacro's loop after r := rd.NextRune(), buf being the bytes and code
\* points written to the buffer so far; stringEscape is its switch on the
\* rune after '\'
RECURSIVE stringMacro(_, _, _)
stringEscape(rd, escapeOffset, offset, buf) ==
    CASE rd.ch = EOF ->
           [rd |-> rdError(rd, escapeOffset, "incomplete escape in string literal"),
            form |-> BadFormAt(offset)]
      [] rd.ch \in {"a", "b", "f", "n", "r", "t", "v", "\\", "\""} ->
           stringMacro(NextRune(rd), offset, Append(buf, EscapeCode(rd.ch)))
      [] rd.ch = "x" ->
           (LET h == readHexBytes(NextRune(rd), 2, 0)
            IN stringMacro(NextRune(h.rd), offset,
                          IF h.ok THEN Append(buf, h.val % 256) ELSE buf))
      [] rd.ch \in {"0", "1", "2", "3", "4", "5", "6", "7"} ->
           (LET h == readOctalByte(rd, 3, 0)
            IN stringMacro(NextRune(h.rd), offset,
                          IF h.ok THEN Append(buf, h.val % 256) ELSE buf))
      [] rd.ch = "u" ->
           (LET h == readHexBytes(NextRune(rd), 4, 0)
            IN stringMacro(NextRune(h.rd), offset,
                          IF h.ok THEN Append(buf, h.val) ELSE buf))
      [] rd.ch = "U" ->
           (LET h == readHexBytes(NextRune(rd), 8, 0)
            IN stringMacro(NextRune(h.rd), offset,
                          IF h.ok THEN Append(buf, h.val) ELSE buf))
      [] OTHER ->
           stringMacro(NextRune(rdError(rd, escapeOffset, "invalid escape in string literal")),
                      offset, buf)

stringMacro(rd, offset, buf) ==
    IF rd.ch \in {EOF, "\n"}
    THEN [rd |-> NextRune(rdError(rd, offset, "incomplete string literal")),
          form |-> BadFormAt(offset)]
    ELSE IF rd.ch = "\""
    THEN [rd |-> NextRune(rd), form |-> [k |-> "str", val |-> buf]]
    ELSE IF rd.ch # "\\"
    THEN stringMacro(NextRune(rd), offset, Append(buf, Code(rd.ch)))
    ELSE stringEscape(NextRune(rd), rd.offset, offset, buf)

\* rawStringMacro's loop after r := rd.NextRune()
RECURSIVE rawStringMacro(_, _, _)
rawStringMacro(rd, dispatchRuneOffset, buf) ==
    IF rd.ch = EOF
    THEN [rd |-> rdError(rd, dispatchRuneOffset, "incomplete raw string literal"),
          form |-> BadFormAt(dispatchRuneOffset)]
    ELSE IF rd.ch = Backquote
    THEN [rd |-> NextRune(rd), form |-> [k |-> "str", val |-> buf]]
    ELSE rawStringMacro(NextRune(rd), dispatchRuneOffset, Append(buf, Code(rd.ch)))

\* runeMacro after r := rd.NextRune(); escaped says that the rune before
\* was '\' and that rd.ch is the rune its switch looks at
RECURSIVE runeMacro(_, _, _)
runeMacro(rd, dispatchRuneOffset, escaped) ==
    IF ~escaped
    THEN IF rd.ch # "\\" THEN [rd |-> rd, form |-> [k |-> "rune", val |-> Code(rd.ch)]]
         ELSE runeMacro(NextRune(rd), dispatchRuneOffset, TRUE)
    ELSE
    CASE rd.ch = EOF ->
           [rd |-> rdError(rd, dispatchRuneOffset, "incomplete rune literal"),
            form |-> BadFormAt(dispatchRuneOffset)]
      [] rd.ch \in {"a", "b", "f", "n", "r", "s", "t", "v", "\\", "'"} ->
           [rd |-> NextRune(rd), form |-> [k |-> "rune", val |-> EscapeCode(rd.ch)]]
      [] rd.ch \in {"x", "u", "U", "0", "1", "2", "3", "4", "5", "6", "7"} ->
           (LET h == CASE rd.ch = "x" -> readHexBytes(NextRune(rd), 2, 0)
                       [] rd.ch = "u" -> readHexBytes(NextRune(rd), 4, 0)
                       [] rd.ch = "U" -> readHexBytes(NextRune(rd), 8, 0)
                       [] OTHER -> readOctalByte(rd, 3, 0)
            IN [rd |-> h.rd,
                form |-> IF h.ok THEN [k |-> "rune", val |-> h.val]
                         ELSE BadFormAt(dispatchRuneOffset)])
      [] OTHER ->
           [rd |-> rdError(rd, dispatchRuneOffset, "invalid escape in rune literal"),
            form |-> BadFormAt(dispatchRuneOffset)]

\* lineCommentMacro's loop after r := rd.NextRune()
RECURSIVE lineCommentMacro(_)
lineCommentMacro(rd) ==
    IF rd.ch \in {"\n", EOF} THEN [rd |-> NextRune(rd), form |-> [k |-> "nil"]]
    ELSE lineCommentMacro(NextRune(rd))

\* a block comment that ends at the first `|#`
blockCommentMacro_FirstClose(rd, level, dispatchRuneOffset) ==
    LET closes == {j \in rd.rdOffset..(Len(rd.src) - 1) :
                       rd.src[j] = "|" /\ rd.src[j + 1] = "#"}
        j == CHOOSE j \in closes : \A h \in closes : j <= h
    IN IF closes = {}
       THEN [rd |-> rdError([rd EXCEPT !.offset = Len(rd.src), !.rdOffset = Len(rd.src),
                                       !.ch = EOF],
                            dispatchRuneOffset, "incomplete block comment"),
             form |-> BadFormAt(dispatchRuneOffset)]
       ELSE [rd |-> NextRune([rd EXCEPT !.rdOffset = j + 1]), form |-> [k |-> "nil"]]

\* blockCommentMacro's loop, with c1 = '#' and c2 = '|'
RECURSIVE blockCommentMacro(_, _, _)
blockCommentMacro(rd, level, dispatchRuneOffset) ==
    CASE rd.ch = EOF ->
           [rd |-> rdError(rd, dispatchRuneOffset, "incomplete block comment"),
            form |-> BadFormAt(dispatchRuneOffset)]
      [] rd.ch = "#" ->
           IF NextRune(rd).ch = "|"
           THEN blockCommentMacro(NextRune(NextRune(rd)), level + 1, dispatchRuneOffset)
           ELSE blockCommentMacro(NextRune(rd), level, dispatchRuneOffset)
      [] rd.ch = "|" ->
           IF NextRune(rd).ch = "#"
           THEN IF level = 1
                THEN [rd |-> NextRune(NextRune(rd)), form |-> [k |-> "nil"]]
                ELSE blockCommentMacro(NextRune(NextRune(rd)), level - 1, dispatchRuneOffset)
           ELSE blockCommentMacro(NextRune(rd), level, dispatchRuneOffset)
      [] OTHER -> blockCommentMacro(NextRune(rd), level, dispatchRuneOffset)

\* -------------------------------------------------------- reader: the forms
RECURSIVE Read(_)

\* ErrorMacro, the macro of ')'
ErrorMacro(rd) ==
    [rd |-> NextRune(rdError(rd, rd.offset, "invalid macro rune")),
     form |-> BadFormAt(rd.offset)]

\* ReadDelimitedList(')'): its loop after the SkipSpace at its head, elems
\* being the elements read so far; listElement handles what Read returned
RECURSIVE ReadDelimitedList(_, _, _)
listElement(e, offset, elems) ==
    IF e.form.k = "eof"
    THEN [rd |-> rdError(e.rd, offset, "incomplete list"), form |-> BadFormAt(offset)]
    ELSE ReadDelimitedList(SkipSpace(e.rd), offset, Append(elems, e.form))

ReadDelimitedList(rd, offset, elems) ==
    IF rd.ch = ")" THEN [rd |-> NextRune(rd), form |-> [k |-> "list", elems |-> elems]]
    ELSE listElement(Read(rd), offset, elems)

\* quoteMacro, quasiquoteMacro and unquoteMacro after element := rd.Read();
\* name is the identifier of the symbol that heads the list, msg the error
quoteMacro(e, offset, name, msg) ==
    IF e.form.k = "eof"
    THEN [rd |-> rdError(e.rd, offset, msg), form |-> BadFormAt(offset)]
    ELSE [rd |-> e.rd,
          form |-> [k |-> "list", elems |-> <<SymbolForm(<<>>, name), e.form>>]]

\* formCommentMacro after rd.Read() returned e
formCommentMacro(e, dispatchRuneOffset) ==
    IF e.form.k = "eof"
    THEN [rd |-> rdError(e.rd, dispatchRuneOffset, "incomplete form comment"),
          form |-> BadFormAt(dispatchRuneOffset)]
    ELSE [rd |-> e.rd, form |-> [k |-> "nil"]]

\* dispatchMacroReader, the macro of '#', after rd.NextRune()
dispatchMacroReader(rd, offset) ==
    CASE rd.ch = Backquote -> rawStringMacro(NextRune(rd), offset, <<>>)
      [] rd.ch = "\\" -> runeMacro(NextRune(rd), offset, FALSE)
      [] rd.ch = ";" -> formCommentMacro(Read(NextRune(rd)), offset)
      [] rd.ch = "|" -> blockCommentMacro(NextRune(rd), 1, offset)
      [] OTHER -> [rd |-> rdError(rd, offset, "invalid dispatch macro rune"),
                   form |-> BadFormAt(offset)]

\* StandardTable.macroRunes
macroRunes == {"(", ")", "'", ";", "\"", Backquote, ",", "#"}

readerMacro(rd) ==
    CASE rd.ch = "(" -> ReadDelimitedList(SkipSpace(NextRune(rd)), rd.offset, <<>>)
      [] rd.ch = ")" -> ErrorMacro(rd)
      [] rd.ch = "'" -> quoteMacro(Read(NextRune(rd)), rd.offset,
                               <<"q", "u", "o", "t", "e">>, "incomplete quote")
      [] rd.ch = ";" -> lineCommentMacro(NextRune(NextRune(rd)))
      [] rd.ch = "\"" -> stringMacro(NextRune(rd), rd.offset, <<>>)
      [] rd.ch = Backquote -> quoteMacro(Read(NextRune(rd)), rd.offset,
                                     <<"q", "u", "a", "s", "i", "q", "u", "o", "t", "e">>,
                                     "incomplete quasiquote")
      [] rd.ch = "," ->
           IF NextRune(rd).ch = "@"
           THEN quoteMacro(Read(NextRune(NextRune(rd))), rd.offset,
                           <<"u", "n", "q", "u", "o", "t", "e", "-",
                             "s", "p", "l", "i", "c", "i", "n", "g">>, "incomplete unquote")
           ELSE quoteMacro(Read(NextRune(rd)), rd.offset,
                           <<"u", "n", "q", "u", "o", "t", "e">>, "incomplete unquote")
      [] rd.ch = "#" -> dispatchMacroReader(NextRune(rd), rd.offset)

\* Read's loop after rd.SkipSpace(); macroForm handles what a macro returned
macroForm(m) == IF m.form.k = "nil" THEN Read(m.rd) ELSE m

readRune(rd) ==
    IF rd.ch = EOF THEN [rd |-> rd, form |-> [k |-> "eof"]]
    ELSE IF rd.ch \in macroRunes THEN macroForm(readerMacro(rd))
    ELSE IF isDigit(rd.ch) THEN readNumber(readNumRunes(rd, <<>>), rd.offset)
    ELSE IF validRune(rd.ch) THEN readSymbolRest(readIdentifier(rd, <<>>), rd.offset)
    ELSE Read(NextRune(rdError(rd, rd.offset, "invalid rune")))

Read(rd) == readRune(SkipSpace(rd))

\* ------------------------------------------------------- reader: the steps
\* NewReader on one of the sources
OpenSource(src) ==
    /\ reader.ch = " " /\ reader.rdOffset = 0
    /\ reader' = NewReader(src)
    /\ forms' = <<>>
    /\ UNCHANGED <<compileVars, internVars, concVars, gensymVars, params, laterVars>>

\* one call of rd.Read() by the client of the reader, until it returned io.EOF
ReadOne ==
    /\ ~(reader.ch = " " /\ reader.rdOffset = 0)
    /\ ~(forms # <<>> /\ forms[Len(forms)].k = "eof")
    /\ Len(forms) < MaxReads
    /\ \E e \in {Read(reader)} :
           /\ reader' = e.rd
           /\ forms' = Append(forms, e.form)
    /\ UNCHANGED <<compileVars, internVars, concVars, gensymVars, params, laterVars>>

NextReader == (\E src \in Sources : OpenSource(src)) \/ ReadOne

SpecReader == Init /\ [][NextReader]_vars

\* ------------------------------------------------------ reader: the claims
\* the client read the source to its end
SourceRead == forms # <<>> /\ forms[Len(forms)].k = "eof"

\* the forms the calls of rd.Read() return, io.EOF included
RECURSIVE ReadAll(_)
readAllFrom(e) == IF e.form.k = "eof" THEN <<e.form>> ELSE <<e.form>> \o ReadAll(e.rd)
ReadAll(rd) == readAllFrom(Read(rd))

\* C13: reading the source `42 0b101 0xBad_Face 1.5e2 0x1p-2 3i` yields
\* exactly six forms, in order: the big integers 42, 5 and 0xBadFace, the
\* floats 150.0 and 0.25, and the complex number 0+3i.
C13_NumberLineForms ==
    (reader.src = NumberLine /\ SourceRead) =>
        forms = << [k |-> "int", val |-> 42],
                   [k |-> "int", val |-> 5],
                   [k |-> "int", val |-> 195951310],
                   [k |-> "float", num |-> 150, den |-> 1],
                   [k |-> "float", num |-> 1, den |-> 4],
                   [k |-> "complex", num |-> 3, den |-> 1],
                   [k |-> "eof"] >>

\* C14: a numeric escape in an interpreted string literal contributes one
\* byte or code point and consumes exactly its digits: the literal and the
\* text after it read as they do with an ordinary rune in place of the
\* escape (here the rune A, which every escape of NumericEscapes denotes).
C14_NumericEscapeConsumesItsDigits ==
    \A e \in NumericEscapes, t \in StringTails :
        (reader.src = <<"\"">> \o e \o t /\ SourceRead) =>
            forms = ReadAll(NewReader(<<"\"", "A">> \o t))

\* C15: a line comment consumes the runes up to the next newline and
\* nothing beyond it: when a source starts with a line comment and the text
\* after its newline starts with a symbol, that symbol is the first form
\* read, also when the comment is empty.
C15_LineCommentEndsAtNewline ==
    (SourceRead /\ reader.src # <<>> /\ reader.src[1] = ";"
       /\ \E i \in 1..Len(reader.src) : reader.src[i] = "\n") =>
        LET nl == CHOOSE i \in 1..Len(reader.src) :
                      reader.src[i] = "\n" /\ \A j \in 1..(i - 1) : reader.src[j] # "\n"
            next == Read(NewReader(SubSeq(reader.src, nl + 1, Len(reader.src)))).form
        IN next.k = "sym" => forms[1] = next

\* C16: reading `#\c`, c a rune other than a backslash, returns the code
\* point of c and consumes c: the forms read after it are the forms of the
\* text after c.
C16_RuneLiteralConsumesRune ==
    \A c \in RuneRunes, t \in RuneTails :
        (reader.src = <<"#", "\\", c>> \o t /\ SourceRead) =>
            forms = <<[k |-> "rune", val |-> Code(c)]>> \o ReadAll(NewReader(t))

\* the index of the rune after the `|#` that brings the level of the block
\* comment back to zero, scanning s from index i at the given level; 0 when
\* there is none
RECURSIVE CommentEnd(_, _, _)
CommentEnd(s, i, level) ==
    IF i > Len(s) THEN 0
    ELSE IF i < Len(s) /\ s[i] = "#" /\ s[i + 1] = "|" THEN CommentEnd(s, i + 2, level + 1)
    ELSE IF i < Len(s) /\ s[i] = "|" /\ s[i + 1] = "#"
    THEN IF level = 1 THEN i + 2 ELSE CommentEnd(s, i + 2, level - 1)
    ELSE CommentEnd(s, i + 1, level)

\* forms without the positions of the bad forms
Unpositioned(fs) == [i \in 1..Len(fs) |-> IF fs[i].k = "bad" THEN [k |-> "bad"] ELSE fs[i]]

\* C17: block comments nest: a comment opened by `#|` at the start of a
\* source ends at the `|#` that brings the nesting level back to zero, and
\* reading resumes at the rune right after it: the forms read are the forms
\* of the text after that `|#`.
C17_BlockCommentsNest ==
    (SourceRead /\ Len(reader.src) >= 2 /\ reader.src[1] = "#" /\ reader.src[2] = "|"
       /\ CommentEnd(reader.src, 3, 1) > 0) =>
        Unpositioned(forms) =
            Unpositioned(ReadAll(NewReader(SubSeq(reader.src, CommentEnd(reader.src, 3, 1),
                                                  Len(reader.src)))))

C17_Witness ==
    /\ reader.src = <<"#", "|", "#", "|", "a", "|", "#", "b", "|", "#", "c">>
    /\ SourceRead
    /\ forms = <<SymbolForm(<<>>, <<"c">>), [k |-> "eof"]>>
    /\ reader.errs = <<>>

\* the number of `#|` and `|#` of s from index i on that have no partner,
\* depth being the number of `#|` that are open
RECURSIVE Unbalanced(_, _, _)
Unbalanced(s, i, depth) ==
    IF i > Len(s) THEN depth
    ELSE IF i < Len(s) /\ s[i] = "#" /\ s[i + 1] = "|" THEN Unbalanced(s, i + 2, depth + 1)
    ELSE IF i < Len(s) /\ s[i] = "|" /\ s[i + 1] = "#"
    THEN IF depth = 0 THEN 1 + Unbalanced(s, i + 2, 0) ELSE Unbalanced(s, i + 2, depth - 1)
    ELSE Unbalanced(s, i + 1, depth)

\* C18: block comments balance: reading a text with k unbalanced `#|` or
\* `|#` records exactly k errors (texts of `#|`, `|#`, x, space and newline).
C18_ErrorPerUnbalancedDelimiter ==
    (SourceRead /\ \A i \in 1..Len(reader.src) : reader.src[i] \in {"#", "|", "x", " ", "\n"}) =>
        Len(reader.errs) = Unbalanced(reader.src, 1, 0)

\* ------------------------------------------------------------- parameters
\* A parameter list is the sequence of its entries; an entry is
\* [k |-> "pair", elems |-> e] or [k |-> "atom"], and an element of an entry
\* is a symbol [k |-> "sym", sym |-> s], a list of symbols
\* [k |-> "list", syms |-> ss] or a number [k |-> "int"].  The text emitted
\* is a sequence of [t |-> "id", sym |-> s] and [t |-> "text", s |-> "..."].
\* The list is written on one line.

\* the loop over names: an error for each invalid one
RECURSIVE checkNames(_, _, _)
checkNames(cs, line, names) ==
    IF names = <<>> THEN cs
    ELSE checkNames(IF isValidSimpleIdentifier(Head(names)) THEN cs
                    ELSE cmpError(cs, line, "invalid identifier"),
                    line, Tail(names))

\* names[0], then ", " and each further name
RECURSIVE nameList(_)
nameList(names) ==
    IF Len(names) = 1 THEN <<[t |-> "id", sym |-> names[1]]>>
    ELSE nameList(SubSeq(names, 1, Len(names) - 1))
         \o <<[t |-> "text", s |-> ", "], [t |-> "id", sym |-> names[Len(names)]]>>

RECURSIVE compileParameterList(_, _, _, _, _)

\* the body of compileParameters' loop from the switch on entry[0], for an
\* entry that is a list; rest is form after form = form.Cdr
parameterEntry(cs, out, entry, rest, line, ellipsisOk) ==
    LET names == IF entry = <<>> THEN <<>>
                 ELSE IF entry[1].k = "sym" THEN <<entry[1].sym>>
                 ELSE IF entry[1].k = "list" THEN entry[1].syms
                 ELSE <<>>
        c1 == checkNames(cs, line, names)
        o1 == out \o nameList(names) \o <<[t |-> "text", s |-> " "]>>
        ellipsis == /\ ellipsisOk /\ Len(entry) >= 2 /\ entry[2].k = "sym"
                    /\ entry[2].sym = Sym(EmptyStr, S("..."))
        c2 == IF ellipsis /\ rest # <<>>
              THEN cmpError(c1, line,
                            "variadic parameter is not the final entry in parameter list")
              ELSE c1
        ty == compileType(c2, line,
                          IF ellipsis THEN entry[3]
                          ELSE IF Len(entry) = 2 THEN entry[2] ELSE [k |-> "nil"])
        o2 == (IF ellipsis THEN o1 \o <<[t |-> "text", s |-> "..."]>> ELSE o1)
              \o [i \in 1..Len(ty.ids) |-> [t |-> "id", sym |-> ty.ids[i]]]
    IN
    IF entry = <<>> THEN [cs |-> runtimePanic(cs), out |-> out]
    ELSE IF names = <<>>
    THEN [cs |-> runtimePanic(cmpError(cs, line, "invalid parameter names")), out |-> out]
    ELSE IF ellipsisOk /\ Len(entry) < 2 THEN [cs |-> runtimePanic(c1), out |-> o1]
    ELSE IF ellipsis /\ Len(entry) # 3
    THEN IF rest = <<>>
         THEN [cs |-> runtimePanic(cmpError(c1, line, "invalid parameter type")), out |-> o1]
         ELSE compileParameterList(cmpError(c1, line, "invalid parameter type"), o1,
                                   rest, line, ellipsisOk)
    ELSE IF rest = <<>> THEN [cs |-> ty.cs, out |-> o2]
    ELSE compileParameterList(ty.cs, o2 \o <<[t |-> "text", s |-> ", "]>>, rest, line,
                              ellipsisOk)

\* compileParameters' loop on a list that is not empty
compileParameterList(cs, out, form, line, ellipsisOk) ==
    IF cs.status # "ok" THEN [cs |-> cs, out |-> out]
    ELSE IF Head(form).k # "pair"
    THEN IF Tail(form) = <<>>
         THEN [cs |-> runtimePanic(cmpError(cs, line, "invalid parameter list entry")),
               out |-> out]
         ELSE compileParameterList(cmpError(cs, line, "invalid parameter list entry"), out,
                                   Tail(form), line, ellipsisOk)
    ELSE parameterEntry(IF Len(Head(form).elems) # 2
                        THEN cmpError(cs, line, "invalid parameter declaration length")
                        ELSE cs,
                        out, Head(form).elems, Tail(form), line, ellipsisOk)

compileParameters(cs, out, form, line, ellipsisOk) ==
    IF form = <<>>
    THEN [cs |-> cs, out |-> out \o <<[t |-> "text", s |-> "("], [t |-> "text", s |-> ")"]>>]
    ELSE LET r == compileParameterList(cs, out \o <<[t |-> "text", s |-> "("]>>, form, line,
                                       ellipsisOk)
         IN [cs |-> r.cs, out |-> r.out \o <<[t |-> "text", s |-> ")"]>>]

\* the entries: (x int) ((x y) int) (x ... int) ((x y) ... int) (x) (x ...)
\* (x int int) (a-b int) (42 int) and the atom 42
ParamEntries ==
    LET x == [k |-> "sym", sym |-> Sym(EmptyStr, S("x"))]
        xy == [k |-> "list", syms |-> <<Sym(EmptyStr, S("x")), Sym(EmptyStr, S("y"))>>]
        int == [k |-> "sym", sym |-> Sym(EmptyStr, S("int"))]
        dots == [k |-> "sym", sym |-> Sym(EmptyStr, S("..."))]
        bad == [k |-> "sym", sym |-> Sym(EmptyStr, S("a-b"))]
    IN {[k |-> "pair", elems |-> e] :
            e \in {<<x, int>>, <<xy, int>>, <<x, dots, int>>, <<xy, dots, int>>, <<x>>,
                   <<x, dots>>, <<x, int, int>>, <<bad, int>>, <<[k |-> "int"], int>>}}
       \cup {[k |-> "atom"]}

\* the parameter lists of at most n entries
RECURSIVE ParamForms(_)
ParamForms(n) ==
    IF n = 0 THEN {<<>>}
    ELSE ParamForms(n - 1) \cup {Append(f, e) : f \in ParamForms(n - 1), e \in ParamEntries}

\* one call of compileParameters by a compiler that has no errors yet, on a
\* list written on line 1
CompileParameters(form, ellipsisOk) ==
    /\ ~params.called
    /\ \E r \in {compileParameters(CS, <<>>, form, 1, ellipsisOk)} :
           params' = [called |-> TRUE, form |-> form, ellipsisOk |-> ellipsisOk,
                      out |-> r.out, Errors |-> r.cs.Errors, status |-> r.cs.status]
    /\ UNCHANGED <<compileVars, internVars, concVars, gensymVars, readerVars, laterVars>>

NextParams ==
    \E form \in ParamForms(MaxParams), ellipsisOk \in BOOLEAN : CompileParameters(form, ellipsisOk)

SpecParams == Init /\ [][NextParams]_vars

\* an entry (names T) or (names ... T) with valid names and the type int
PlainEntry(e, variadic) ==
    /\ e.k = "pair" /\ Len(e.elems) = (IF variadic THEN 3 ELSE 2)
    /\ e.elems[1].k \in {"sym", "list"}
    /\ e.elems[1].k = "sym" => isValidSimpleIdentifier(e.elems[1].sym)
    /\ e.elems[Len(e.elems)] = [k |-> "sym", sym |-> Sym(EmptyStr, S("int"))]
    /\ variadic => e.elems[2] = [k |-> "sym", sym |-> Sym(EmptyStr, S("..."))]

\* C20: a parameter list whose last entry is (names ... T), where a variadic
\* parameter is allowed, is translated to a list that ends in the variadic
\* parameter `names ...T`, and no error is recorded.
C20_VariadicTranslated ==
    (/\ params.called /\ params.ellipsisOk /\ params.form # <<>>
     /\ PlainEntry(params.form[Len(params.form)], TRUE)
     /\ \A i \in 1..(Len(params.form) - 1) : PlainEntry(params.form[i], FALSE)) =>
        /\ params.status = "ok"
        /\ params.Errors = <<>>
        /\ Len(params.out) >= 4
        /\ SubSeq(params.out, Len(params.out) - 3, Len(params.out)) =
               << [t |-> "text", s |-> " "], [t |-> "text", s |-> "..."],
                  [t |-> "id", sym |-> Sym(EmptyStr, S("int"))], [t |-> "text", s |-> ")"] >>

\* ------------------------------------------------------------- struct types
\* A struct type form is [line |-> l, fields |-> fs]: the line it starts on
\* and the elements after the symbol struct.  A field is [k |-> "atom"], the
\* empty list [k |-> "nil"] or [k |-> "pair", line, car, rest]: its first
\* element and the elements after it in source order.  An element is a symbol
\* [k |-> "sym", sym |-> s], a list of symbols [k |-> "list", syms |-> ss], a
\* string [k |-> "str", s |-> text] or a number [k |-> "int"].

MaxFields == 2

keyDocumentation == Sym(Keyword, S("documentation"))
keyTag == Sym(Keyword, S("tag"))
keyType == Sym(Keyword, S("type"))

Text(s) == [t |-> "text", s |-> s]

\* checkf: an error for each key that is not one of keys; the type assertion
\* on the key and the two Cdr steps panic on a key that is no symbol and on a
\* key without a value
RECURSIVE checkf(_, _, _, _)
checkf(cs, line, form, keys) ==
    IF form = <<>> \/ cs.status # "ok" THEN cs
    ELSE IF Head(form).k # "sym" THEN runtimePanic(cs)
    ELSE IF Len(form) < 2
    THEN runtimePanic(IF Head(form).sym \in keys THEN cs
                      ELSE cmpError(cs, line, "invalid key"))
    ELSE checkf(IF Head(form).sym \in keys THEN cs ELSE cmpError(cs, line, "invalid key"),
                line, SubSeq(form, 3, Len(form)), keys)

\* getf on a list of keys and values
RECURSIVE getf(_, _)
getf(form, key) ==
    IF Len(form) < 2 THEN [found |-> FALSE, val |-> [k |-> "nil"]]
    ELSE IF Head(form) = [k |-> "sym", sym |-> key] THEN [found |-> TRUE, val |-> form[2]]
    ELSE getf(SubSeq(form, 3, Len(form)), key)

\* formatComment on a comment of one line
formatComment(out, comment) == out \o <<Text("// "), Text(comment), Text("\n")>>

\* compileStructType's callback from `if tag`, r what the type gave
structTag(r, e, tag) ==
    IF r.cs.status # "ok" THEN r
    ELSE IF ~tag.found THEN [cs |-> r.cs, out |-> Append(r.out, Text("\n"))]
    ELSE IF tag.val.k # "str"
    THEN [cs |-> cmpError(r.cs, e.line, "tag for struct field is not a string"),
          out |-> Append(r.out, Text("\n"))]
    ELSE [cs |-> r.cs,
          out |-> r.out \o <<Text(" "), [t |-> "quoted", s |-> tag.val.s], Text("\n")>>]

\* the text of a compiled type appended to out
typeText(ty, out) ==
    [cs |-> ty.cs, out |-> out \o [i \in 1..Len(ty.ids) |-> [t |-> "id", sym |-> ty.ids[i]]]]

\* compileStructType's callback, the branch `if typ`
namedField(cs, out, line, e, names, typForm) ==
    IF names = <<>>
    THEN [cs |-> runtimePanic(cmpError(cs, e.line, "invalid identifiers")), out |-> out]
    ELSE typeText(compileType(checkNames(cs, e.line, names), line, typForm),
                  out \o nameList(names) \o <<Text(" ")>>)

\* compileStructType's callback from `if typ`; the else branch compiles
\* form.Car, the symbol struct of the enclosing form
fieldType(cs, out, line, e, typ) ==
    IF typ.found
    THEN namedField(cs, out, line, e,
                    IF e.car.k = "sym" THEN <<e.car.sym>>
                    ELSE IF e.car.k = "list" THEN e.car.syms ELSE <<>>,
                    typ.val)
    ELSE typeText(compileType(cs, line, [k |-> "sym", sym |-> Sym(EmptyStr, S("struct"))]),
                  out)

\* compileStructType's callback after cmp.checkf
structField(cs, out, line, e, doc) ==
    IF cs.status # "ok" THEN [cs |-> cs, out |-> out]
    ELSE IF doc.found /\ doc.val.k # "str" THEN [cs |-> runtimePanic(cs), out |-> out]
    ELSE structTag(fieldType(cs, IF doc.found THEN formatComment(out, doc.val.s) ELSE out,
                             line, e, getf(e.rest, keyType)),
                   e, getf(e.rest, keyTag))

\* compileStructType's callback on one element
structEntry(cs, out, line, e) ==
    IF cs.status # "ok" THEN [cs |-> cs, out |-> out]
    ELSE IF e.k = "atom"
    THEN [cs |-> cmpError(cs, line, "invalid struct type entry"), out |-> out]
    ELSE IF e.k = "nil" THEN [cs |-> runtimePanic(cs), out |-> out]
    ELSE structField(checkf(cs, e.line, e.rest, {keyDocumentation, keyTag}), out, line, e,
                     getf(e.rest, keyDocumentation))

\* rest.ForEach
RECURSIVE structEntries(_, _, _)
structEntries(r, line, fields) ==
    IF fields = <<>> THEN r
    ELSE structEntries(structEntry(r.cs, r.out, line, Head(fields)), line, Tail(fields))

closeStruct(r) == [cs |-> r.cs, out |-> Append(r.out, Text("}"))]

compileStructType(cs, out, form) ==
    IF form.fields = <<>> THEN [cs |-> cs, out |-> Append(out, Text("struct{}"))]
    ELSE closeStruct(structEntries([cs |-> cs, out |-> Append(out, Text("struct{\n"))],
                                   form.line, form.fields))

\* the fields: a first element x, (x y), a-b or 42, followed by nothing,
\* :type int, :type int with :tag and/or :documentation strings, :tag alone,
\* :type without a value, a :tag or :documentation that is a number, a key
\* :other, a string in the place of a key; the atom 42 and the empty list
StructFields ==
    LET sym(b) == [k |-> "sym", sym |-> Sym(EmptyStr, S(b))]
        key(b) == [k |-> "sym", sym |-> Sym(Keyword, S(b))]
        str(b) == [k |-> "str", s |-> b]
        int == sym("int")
        cars == {sym("x"), [k |-> "list", syms |-> <<Sym(EmptyStr, S("x")),
                                                     Sym(EmptyStr, S("y"))>>],
                 sym("a-b"), [k |-> "int"]}
        rests == {<<>>, <<key("type"), int>>,
                  <<key("type"), int, key("tag"), str("t")>>,
                  <<key("type"), int, key("documentation"), str("d")>>,
                  <<key("type"), int, key("tag"), str("t"), key("documentation"), str("d")>>,
                  <<key("tag"), str("t")>>, <<key("type")>>,
                  <<key("type"), int, key("tag"), [k |-> "int"]>>,
                  <<key("documentation"), [k |-> "int"]>>,
                  <<key("other"), int>>, <<str("s"), int>>}
    IN {[k |-> "pair", line |-> l, car |-> c, rest |-> r] :
            l \in 1..2, c \in cars, r \in rests}
       \cup {[k |-> "atom"], [k |-> "nil"]}

\* the lists of at most n fields
RECURSIVE FieldLists(_)
FieldLists(n) ==
    IF n = 0 THEN {<<>>}
    ELSE FieldLists(n - 1) \cup {Append(f, e) : f \in FieldLists(n - 1), e \in StructFields}

\* one call of compileStructType by a compiler that has no errors yet, on a
\* form that starts on line 1
CompileStructType(fields) ==
    /\ ~handler.called
    /\ \E r \in {compileStructType(CS, <<>>, [line |-> 1, fields |-> fields])} :
           handler' = [called |-> TRUE, fn |-> "compileStructType", form |-> fields,
                       out |-> r.out, Errors |-> r.cs.Errors, status |-> r.cs.status]
    /\ UNCHANGED <<compileVars, internVars, concVars, gensymVars, readerVars, params, tables, mem>>

NextStruct == \E fields \in FieldLists(MaxFields) : CompileStructType(fields)

SpecStruct == Init /\ [][NextStruct]_vars

\* a field (names :type int), optionally followed by :tag S and
\* :documentation S, with valid names
NamedField(e) ==
    /\ e.k = "pair"
    /\ e.car.k \in {"sym", "list"}
    /\ e.car.k = "sym" => isValidSimpleIdentifier(e.car.sym)
    /\ Len(e.rest) >= 2
    /\ e.rest[1] = [k |-> "sym", sym |-> keyType]
    /\ e.rest[2] = [k |-> "sym", sym |-> Sym(EmptyStr, S("int"))]
    /\ \A i \in 3..Len(e.rest) :
           IF i % 2 = 1 THEN e.rest[i].k = "sym" /\ e.rest[i].sym \in {keyTag, keyDocumentation}
           ELSE e.rest[i].k = "str"

\* C21: a struct type whose fields all have the form (names :type T),
\* optionally with :tag S and :documentation S, is translated to the text
\* struct{ ... } without an error being recorded.
C21_StructFieldsTranslated ==
    (/\ handler.called /\ handler.fn = "compileStructType" /\ handler.form # <<>>
     /\ \A i \in 1..Len(handler.form) : NamedField(handler.form[i])) =>
        /\ handler.status = "ok"
        /\ handler.Errors = <<>>
        /\ handler.out[1] = Text("struct{\n")
        /\ handler.out[Len(handler.out)] = Text("}")

\* -------------------------------------------- return and slice expressions
\* A statement or expression form is the sequence form.ToSlice() gives: its
\* head symbol and its operands, each an element as compileExpr takes it.
\* The form is written on line 1.  expr[i] of the code is expr[i + 1] here.

MaxOperands == 3
MaxSliceOperands == 5

\* result = append(result, s...)
emit(r, s) == IF r.cs.status # "ok" THEN r ELSE [cs |-> r.cs, out |-> Append(r.out, Text(s))]

\* result = cmp.compileExpression(result, form, e)
operand(r, line, e) ==
    IF r.cs.status # "ok" THEN r ELSE typeText(compileExpr(r.cs, line, e), r.out)

\* an index expression that is out of range
indexPanic(r) == [cs |-> runtimePanic(r.cs), out |-> r.out]

\* the operands: the symbols x, lo, hi, a-b and the call (f)
Operands ==
    {[k |-> "sym", sym |-> Sym(EmptyStr, S(b))] : b \in {"x", "lo", "hi", "a-b"}}
    \cup {[k |-> "call", sym |-> Sym(EmptyStr, S("f"))]}

\* the forms with the head symbol head and at most n operands out of ops
RECURSIVE FormsOf(_, _, _)
FormsOf(head, ops, n) ==
    IF n = 0 THEN {<<[k |-> "sym", sym |-> Sym(EmptyStr, S(head))]>>}
    ELSE FormsOf(head, ops, n - 1)
         \cup {Append(f, e) : f \in FormsOf(head, ops, n - 1), e \in ops}

\* compileReturnStatement from `if len(stmt) == 0`
returnValue(r, stmt, line) ==
    IF Len(stmt) = 0 THEN emit(r, "return\n")
    ELSE IF Len(stmt) < 2 THEN indexPanic(emit(r, "return "))
    ELSE emit(operand(emit(r, "return "), line, stmt[2]), "\n")

compileReturnStatement(cs, out, stmt, line) ==
    returnValue([cs |-> IF Len(stmt) > 2
                        THEN cmpError(cs, line, "invalid number of return values")
                        ELSE cs,
                 out |-> out],
                stmt, line)

CompileReturnStatement(stmt) ==
    /\ ~handler.called
    /\ \E r \in {compileReturnStatement(CS, <<>>, stmt, 1)} :
           handler' = [called |-> TRUE, fn |-> "compileReturnStatement", form |-> stmt,
                       out |-> r.out, Errors |-> r.cs.Errors, status |-> r.cs.status]
    /\ UNCHANGED <<compileVars, internVars, concVars, gensymVars, readerVars, params, tables, mem>>

NextReturn == \E stmt \in FormsOf("return", Operands, MaxOperands) : CompileReturnStatement(stmt)

SpecReturn == Init /\ [][NextReturn]_vars

\* the text of a sequence of emitted pieces, identifiers by their name
RECURSIVE Pieces(_)
Pieces(out) ==
    IF out = <<>> THEN <<>>
    ELSE <<IF Head(out).t = "id" THEN Head(out).sym.Identifier.b ELSE Head(out).s>>
         \o Pieces(Tail(out))

\* a symbol that is a valid local identifier
LocalOperand(e) == e.k = "sym" /\ isValidSimpleIdentifier(e.sym)

\* C22: (return) emits a bare return and (return e) emits return e, each
\* without an error being recorded and without the translation aborting.
C22_ReturnOptionalExpression ==
    (/\ handler.called /\ handler.fn = "compileReturnStatement"
     /\ Len(handler.form) <= 2
     /\ Len(handler.form) = 2 => LocalOperand(handler.form[2])) =>
        /\ handler.status = "ok"
        /\ handler.Errors = <<>>
        /\ Pieces(handler.out) =
               IF Len(handler.form) = 1 THEN <<"return\n">>
               ELSE <<"return ", handler.form[2].sym.Identifier.b, "\n">>

\* compileSliceExpression from `if len(expr) == 4`
sliceMax(r, expr, line) ==
    IF Len(expr) = 4 THEN r
    ELSE emit(operand(emit(r, ":"), line, expr[5]), "]")

\* compileSliceExpression from `if len(expr) == 3`
sliceHigh(r, expr, line) ==
    IF Len(expr) = 3 THEN emit(r, "]")
    ELSE sliceMax(operand(r, line, expr[4]), expr, line)

\* compileSliceExpression from its first compileExpression
sliceLow(r, expr, line) ==
    IF Len(expr) < 2 THEN indexPanic(r)
    ELSE IF Len(expr) < 3 THEN indexPanic(emit(operand(r, line, expr[2]), "["))
    ELSE sliceHigh(emit(operand(emit(operand(r, line, expr[2]), "["), line, expr[3]), ":"),
                   expr, line)

compileSliceExpression(cs, out, expr, line) ==
    sliceLow([cs |-> IF Len(expr) < 3 \/ Len(expr) > 5
                     THEN cmpError(cs, line, "invalid slice expression")
                     ELSE cs,
              out |-> out],
             expr, line)

CompileSliceExpression(expr) ==
    /\ ~handler.called
    /\ \E r \in {compileSliceExpression(CS, <<>>, expr, 1)} :
           handler' = [called |-> TRUE, fn |-> "compileSliceExpression", form |-> expr,
                       out |-> r.out, Errors |-> r.cs.Errors, status |-> r.cs.status]
    /\ UNCHANGED <<compileVars, internVars, concVars, gensymVars, readerVars, params, tables, mem>>

\* the operands of slice expressions: the symbols x, lo and a-b
SliceOperands == {[k |-> "sym", sym |-> Sym(EmptyStr, S(b))] : b \in {"x", "lo", "a-b"}}

NextSlice ==
    \E expr \in FormsOf("slice", SliceOperands, MaxSliceOperands) : CompileSliceExpression(expr)

SpecSlice == Init /\ [][NextSlice]_vars

\* the number of pieces of out that are the text s
RECURSIVE CountText(_, _)
CountText(out, s) ==
    IF out = <<>> THEN 0
    ELSE (IF Head(out) = Text(s) THEN 1 ELSE 0) + CountText(Tail(out), s)

\* C23: (slice x lo), (slice x lo hi) and (slice x lo hi max) are translated
\* to x[lo:], x[lo:hi] and x[lo:hi:max]; the emitted text has a closing ]
\* for its opening [.
C23_SliceForms ==
    (/\ handler.called /\ handler.fn = "compileSliceExpression"
     /\ Len(handler.form) \in 3..5
     /\ \A i \in 2..Len(handler.form) : LocalOperand(handler.form[i])) =>
        LET name(i) == handler.form[i].sym.Identifier.b IN
        /\ handler.status = "ok"
        /\ handler.Errors = <<>>
        /\ CountText(handler.out, "[") = CountText(handler.out, "]")
        /\ Pieces(handler.out) =
               CASE Len(handler.form) = 3 -> <<name(2), "[", name(3), ":", "]">>
                 [] Len(handler.form) = 4 -> <<name(2), "[", name(3), ":", name(4), "]">>
                 [] Len(handler.form) = 5 ->
                        <<name(2), "[", name(3), ":", name(4), ":", name(5), "]">>

\* -------------------------------------------------------------- read tables
\* tables holds the *Table objects and the maps they point to:
\*   macroRunes[t], terminating[t]   the two plain maps of table t
\*   dispatchMacroRunes[t]           dispatch rune -> the subtable it points to
\*   sub[i]                          subtable i: sub rune -> DispatchMacro
\* A Macro or DispatchMacro is [fn |-> name, subtable |-> i]: i is the
\* subtable that a closure made by dispatchMacroReader captured, 0 otherwise.
\* Table 1 is StandardTable; before the package is initialised there is none.

MaxTables == 2
MaxTableOps == 3

Fn(name) == [fn |-> name, subtable |-> 0]

\* dispatchMacroReader(subtable): the closure, which keeps the map it was given
dispatchMacroReaderOf(i) == [fn |-> "dispatchMacroReader", subtable |-> i]

StandardMacroRunes ==
    [r \in macroRunes |->
        CASE r = "(" -> Fn("listMacro") [] r = ")" -> Fn("ErrorMacro")
          [] r = "'" -> Fn("quoteMacro") [] r = ";" -> Fn("lineCommentMacro")
          [] r = "\"" -> Fn("stringMacro") [] r = Backquote -> Fn("quasiquoteMacro")
          [] r = "," -> Fn("unquoteMacro") [] r = "#" -> dispatchMacroReaderOf(1)]

StandardDispatch ==
    [s \in {Backquote, "\\", ";", "|"} |->
        CASE s = Backquote -> Fn("rawStringMacro") [] s = "\\" -> Fn("runeMacro")
          [] s = ";" -> Fn("formCommentMacro") [] s = "|" -> Fn("blockCommentMacro")]

\* the variable StandardTable after init() has stored the macro of '#'
StandardTable ==
    [n |-> 1, ops |-> 0,
     macroRunes |-> <<StandardMacroRunes>>,
     dispatchMacroRunes |-> <<[r \in {"#"} |-> 1]>>,
     terminating |-> <<{r \in {Ascii[i] : i \in 1..Len(Ascii)} : terminating(r)}>>,
     sub |-> <<StandardDispatch>>,
     last |-> [op |-> "init", t |-> 0, r |-> "", s |-> "", f |-> Fn("")],
     before |-> <<>>]

\* the runes and sub runes that tables are changed at and probed with
TableRunes == <<"#", "!", "(">>
SubRunes == {"|", "!", ";"}

\* Read's choice, for a table t and a rune r followed by s that is neither a
\* space nor a digit: the function that reads the form
Selected(T, t, r, s) ==
    IF r \in DOMAIN T.macroRunes[t]
    THEN IF T.macroRunes[t][r].fn = "dispatchMacroReader"
         THEN IF s \in DOMAIN T.sub[T.macroRunes[t][r].subtable]
              THEN T.sub[T.macroRunes[t][r].subtable][s]
              ELSE Fn("invalid dispatch macro rune")
         ELSE T.macroRunes[t][r]
    ELSE IF r \in DOMAIN T.dispatchMacroRunes[t]
    THEN IF s \in DOMAIN T.sub[T.dispatchMacroRunes[t][r]]
         THEN T.sub[T.dispatchMacroRunes[t][r]][s]
         ELSE Fn("subrune not defined for dispatch rune")
    ELSE Fn("readSymbol")

\* how a reader that uses table t reads: the function chosen for each pair
\* of runes, and the runes that end an identifier
Reading(T, t) ==
    [sel |-> [p \in {TableRunes[i] : i \in 1..Len(TableRunes)} \X SubRunes |->
                 Selected(T, t, p[1], p[2])],
     terminating |-> T.terminating[t]]

Snapshot(T) == [t \in 1..T.n |-> Reading(T, t)]

\* CopyTable's second loop over the dispatch runes rs of table t: a new
\* subtable with the entries of the old one for each
RECURSIVE copyDispatch(_, _, _, _)
copyDispatch(T, t, rs, acc) ==
    IF rs = <<>> THEN acc
    ELSE IF Head(rs) \notin DOMAIN T.dispatchMacroRunes[t]
    THEN copyDispatch(T, t, Tail(rs), acc)
    ELSE copyDispatch(T, t, Tail(rs),
                      [sub |-> Append(acc.sub, T.sub[T.dispatchMacroRunes[t][Head(rs)]]),
                       dispatch |-> Put(acc.dispatch, Head(rs), Len(acc.sub) + 1)])

copiedTable(T, t, d) ==
    [T EXCEPT !.n = @ + 1,
              !.macroRunes = Append(@, T.macroRunes[t]),
              !.dispatchMacroRunes = Append(@, d.dispatch),
              !.terminating = Append(@, T.terminating[t]),
              !.sub = d.sub]

Done(T, op, t, r, s, f, before) ==
    [T EXCEPT !.ops = @ + 1, !.before = before,
              !.last = [op |-> op, t |-> t, r |-> r, s |-> s, f |-> f]]

\* the initialisation of package reader
InitReaderPackage ==
    /\ tables.n = 0
    /\ tables' = StandardTable
    /\ UNCHANGED <<compileVars, internVars, concVars, gensymVars, readerVars, params, handler, mem>>

CopyTable(t) ==
    /\ tables.n < MaxTables /\ tables.ops < MaxTableOps
    /\ tables' = Done(copiedTable(tables, t,
                                  copyDispatch(tables, t, TableRunes,
                                               [sub |-> tables.sub, dispatch |-> EmptyMap])),
                      "CopyTable", t, "", "", Fn(""), Snapshot(tables))
    /\ UNCHANGED <<compileVars, internVars, concVars, gensymVars, readerVars, params, handler, mem>>

setMacroRune(T, t, r, f, term) ==
    [T EXCEPT !.macroRunes[t] = Put(@, r, f),
              !.terminating[t] = IF term THEN @ \cup {r} ELSE @ \ {r}]

SetMacroRune(t, r, f, term) ==
    /\ tables.ops < MaxTableOps
    /\ tables' = Done(setMacroRune(tables, t, r, f, term), "SetMacroRune", t, r, "", f,
                      Snapshot(tables))
    /\ UNCHANGED <<compileVars, internVars, concVars, gensymVars, readerVars, params, handler, mem>>

MakeDisptachMacroRune(t, r, term) ==
    /\ tables.ops < MaxTableOps
    /\ tables' = Done(setMacroRune([tables EXCEPT !.sub = Append(@, EmptyMap),
                                                  !.dispatchMacroRunes[t] =
                                                      Put(@, r, Len(tables.sub) + 1)],
                                   t, r, dispatchMacroReaderOf(Len(tables.sub) + 1), term),
                      "MakeDisptachMacroRune", t, r, "", Fn(""), Snapshot(tables))
    /\ UNCHANGED <<compileVars, internVars, concVars, gensymVars, readerVars, params, handler, mem>>

\* SetDispatchMacroRune; for a rune without a subtable the assignment is to
\* an entry of a nil map, which panics and changes nothing
SetDispatchMacroRune(t, d, s, f) ==
    /\ tables.ops < MaxTableOps
    /\ tables' =
           IF d \notin DOMAIN tables.dispatchMacroRunes[t]
           THEN Done(tables, "panic", t, d, s, f, Snapshot(tables))
           ELSE Done([tables EXCEPT !.sub[tables.dispatchMacroRunes[t][d]] = Put(@, s, f)],
                     "SetDispatchMacroRune", t, d, s, f, Snapshot(tables))
    /\ UNCHANGED <<compileVars, internVars, concVars, gensymVars, readerVars, params, handler, mem>>

NextTables ==
    \/ InitReaderPackage
    \/ \E t \in 1..tables.n :
        \/ CopyTable(t)
        \/ \E r \in {"#", "!"}, f \in {Fn("userMacro")}, term \in BOOLEAN :
               SetMacroRune(t, r, f, term)
        \/ \E r \in {"!"}, term \in BOOLEAN : MakeDisptachMacroRune(t, r, term)
        \/ \E d \in {"#", "!"}, s \in {"|", "!"}, f \in {Fn("userDispatchMacro")} :
               SetDispatchMacroRune(t, d, s, f)

SpecTables == Init /\ [][NextTables]_vars

\* C24: a macro function or dispatch-macro function registered in one table
\* is what a reader using that table then calls, and no reader using another
\* table reads any input differently than before.
C24_TablesIndependent ==
    tables.n > 0 =>
        /\ tables.last.op \in {"SetMacroRune", "SetDispatchMacroRune"} =>
               \A u \in 1..tables.n :
                   u # tables.last.t => Reading(tables, u) = tables.before[u]
        /\ tables.last.op = "SetMacroRune" =>
               \A s \in SubRunes : Selected(tables, tables.last.t, tables.last.r, s) = tables.last.f
        /\ (/\ tables.last.op = "SetDispatchMacroRune"
            /\ tables.last.r \in DOMAIN tables.macroRunes[tables.last.t]
            /\ tables.macroRunes[tables.last.t][tables.last.r].fn = "dispatchMacroReader") =>
               Selected(tables, tables.last.t, tables.last.r, tables.last.s) = tables.last.f

\* -------------------------------------------------------------------- lists
\* mem.heap is the sequence of the Pair cells allocated so far; a *Pair is
\* the index of its cell, and 0 is (*Pair)(nil).  A cell is [Car, Cdr]; a
\* Cdr of -1 is the nil interface value that &Pair{Car: car} leaves there.
\* mem.args are the lists built, mem.op the operation called on them,
\* mem.res what it returned and mem.before the heap when it was called.

MaxLists == 3
MaxListLen == 2

Values == {1, 2}

\* &Pair{Car: car, Cdr: cdr}; the new cell is Len(H) + 1
alloc(H, car, cdr) == Append(H, [Car |-> car, Cdr |-> cdr])

\* last.ncdr(car)
ncdr(H, last, car) ==
    [H |-> [alloc(H, car, -1) EXCEPT ![last].Cdr = Len(H) + 1], last |-> Len(H) + 1]

\* list(elements...) from its loop
RECURSIVE listRest(_, _, _, _)
listRest(H, elements, res, last) ==
    IF elements = <<>> THEN [H |-> [H EXCEPT ![last].Cdr = 0], res |-> res]
    ELSE listRest(ncdr(H, last, Head(elements)).H, Tail(elements), res, Len(H) + 1)

\* copyList from its loop
RECURSIVE copyCells(_, _, _, _)
copyCells(H, list, res, last) ==
    IF H[list].Cdr <= 0
    THEN [H |-> [H EXCEPT ![last].Cdr = H[list].Cdr], res |-> res, last |-> last]
    ELSE copyCells(ncdr(H, last, H[H[list].Cdr].Car).H, H[list].Cdr, res, Len(H) + 1)

\* copyList on a list that is not nil
copyList(H, list) == copyCells(alloc(H, H[list].Car, -1), list, Len(H) + 1, Len(H) + 1)

\* Append's inner loop, `for index, pair = range lists[index+1:]`: rest is
\* the slice lists[index+1:], and index counts from 0 in that slice
RECURSIVE appendRest(_, _, _, _, _, _)
appendRest(H, rest, index, lastIndex, res, last) ==
    IF index >= Len(rest) THEN [H |-> H, res |-> res]
    ELSE IF rest[index + 1] = 0 THEN appendRest(H, rest, index + 1, lastIndex, res, last)
    ELSE IF index = lastIndex
    THEN [H |-> [H EXCEPT ![last].Cdr = rest[index + 1]], res |-> res]
    ELSE LET c == copyList(H, rest[index + 1]) IN
         appendRest([c.H EXCEPT ![last].Cdr = c.res], rest, index + 1, lastIndex, res,
                    c.last)

\* Append's outer loop
RECURSIVE appendFrom(_, _, _)
appendFrom(H, lists, index) ==
    IF index >= Len(lists) THEN [H |-> H, res |-> 0]
    ELSE IF lists[index + 1] = 0 THEN appendFrom(H, lists, index + 1)
    ELSE IF index = Len(lists) - 1 THEN [H |-> H, res |-> lists[index + 1]]
    ELSE LET c == copyList(H, lists[index + 1]) IN
         appendRest(c.H, SubSeq(lists, index + 2, Len(lists)), 0, Len(lists) - 1, c.res,
                    c.last)

\* list.Append(lists...)
AppendLists(H, lists) == appendFrom(H, lists, 0)

\* Filter's inner loop; pred is the set of the values that satisfy predicate
RECURSIVE filterRest(_, _, _, _, _)
filterRest(H, pair, pred, res, last) ==
    IF pair = 0 THEN [H |-> [H EXCEPT ![last].Cdr = 0], res |-> res]
    ELSE IF H[pair].Car \in pred
    THEN filterRest(ncdr(H, last, H[pair].Car).H, H[pair].Cdr, pred, res, Len(H) + 1)
    ELSE filterRest(H, H[pair].Cdr, pred, res, last)

RECURSIVE Filter(_, _, _)
Filter(H, list, pred) ==
    IF list = 0 THEN [H |-> H, res |-> 0]
    ELSE IF H[list].Car \in pred
    THEN filterRest(alloc(H, H[list].Car, -1), H[list].Cdr, pred, Len(H) + 1, Len(H) + 1)
    ELSE Filter(H, H[list].Cdr, pred)

\* Remove: the loops of Filter with the test !predicate(car)
Remove(H, list, pred) == Filter(H, list, Values \ pred)

\* NDelete's inner loop
RECURSIVE nDeleteRest(_, _, _, _, _)
nDeleteRest(H, pair, x, res, last) ==
    IF pair = 0 THEN [H |-> [H EXCEPT ![last].Cdr = 0], res |-> res]
    ELSE IF H[pair].Car # x
    THEN nDeleteRest([H EXCEPT ![last].Cdr = pair], H[pair].Cdr, x, res, pair)
    ELSE nDeleteRest(H, H[pair].Cdr, x, res, last)

\* NDelete, the linear-update variant of Delete
RECURSIVE NDelete(_, _, _)
NDelete(H, list, x) ==
    IF list = 0 THEN [H |-> H, res |-> 0]
    ELSE IF H[list].Car # x THEN nDeleteRest(H, H[list].Cdr, x, list, list)
    ELSE NDelete(H, H[list].Cdr, x)

\* Delete: the loops of Filter with the test car != x
Delete(H, list, x) == Filter(H, list, Values \ {x})

\* Partition's loop
RECURSIVE partitionLoop(_, _, _, _, _, _, _)
partitionLoop(H, pair, pred, ins, lastIn, outs, lastOut) ==
    IF pair = 0
    THEN [H |-> [i \in 1..Len(H) |-> IF i \in {lastIn, lastOut} THEN [H[i] EXCEPT !.Cdr = 0]
                                     ELSE H[i]],
          ins |-> ins, outs |-> outs]
    ELSE IF H[pair].Car \in pred
    THEN IF ins = 0
         THEN partitionLoop(alloc(H, H[pair].Car, -1), H[pair].Cdr, pred, Len(H) + 1,
                            Len(H) + 1, outs, lastOut)
         ELSE partitionLoop(ncdr(H, lastIn, H[pair].Car).H, H[pair].Cdr, pred, ins,
                            Len(H) + 1, outs, lastOut)
    ELSE IF outs = 0
         THEN partitionLoop(alloc(H, H[pair].Car, -1), H[pair].Cdr, pred, ins, lastIn,
                            Len(H) + 1, Len(H) + 1)
         ELSE partitionLoop(ncdr(H, lastOut, H[pair].Car).H, H[pair].Cdr, pred, ins, lastIn,
                            outs, Len(H) + 1)

Partition(H, list, pred) == partitionLoop(H, list, pred, 0, 0, 0, 0)

\* DeleteDuplicates' recur from `if cdr == newTail`; t is what recur returned
newPair(t, H, list) ==
    IF H[list].Cdr = t.res THEN [H |-> t.H, res |-> list]
    ELSE [H |-> alloc(t.H, H[list].Car, t.res), res |-> Len(t.H) + 1]

\* DeleteDuplicates' recur; d is what cdr.Delete(car) returned
RECURSIVE recur(_, _)
recurTail(d) == recur(d.H, d.res)

recur(H, list) ==
    IF list = 0 THEN [H |-> H, res |-> 0]
    ELSE newPair(recurTail(Delete(H, H[list].Cdr, H[list].Car)), H, list)

DeleteDuplicates(H, list) == recur(H, list)

\* the sequences of at most n values
RECURSIVE ValueSeqs(_)
ValueSeqs(n) ==
    IF n = 0 THEN {<<>>}
    ELSE ValueSeqs(n - 1) \cup {Append(s, v) : s \in ValueSeqs(n - 1), v \in Values}

Called(op, x, r, res) ==
    [mem EXCEPT !.heap = r.H, !.op = op, !.x = x, !.res = res, !.before = mem.heap]

\* list.List(elements...): one more argument list
List(elements) ==
    /\ mem.op = "none" /\ Len(mem.args) < MaxLists
    /\ mem' = IF elements = <<>> THEN [mem EXCEPT !.args = Append(@, 0)]
              ELSE [mem EXCEPT !.args = Append(@, Len(mem.heap) + 1),
                               !.heap = listRest(alloc(mem.heap, Head(elements), -1),
                                                 Tail(elements), Len(mem.heap) + 1,
                                                 Len(mem.heap) + 1).H]
    /\ UNCHANGED <<compileVars, internVars, concVars, gensymVars, readerVars, params,
                   handler, tables>>

\* list.Append on the lists built
CallAppend ==
    /\ mem.op = "none"
    /\ \E r \in {AppendLists(mem.heap, mem.args)} : mem' = Called("Append", {}, r, <<r.res>>)
    /\ UNCHANGED <<compileVars, internVars, concVars, gensymVars, readerVars, params,
                   handler, tables>>

\* one of the pure operations on the one list built
CallFilter(pred) ==
    /\ mem.op = "none" /\ Len(mem.args) = 1
    /\ \E r \in {Filter(mem.heap, mem.args[1], pred)} :
           mem' = Called("Filter", pred, r, <<r.res>>)
    /\ UNCHANGED <<compileVars, internVars, concVars, gensymVars, readerVars, params,
                   handler, tables>>

CallRemove(pred) ==
    /\ mem.op = "none" /\ Len(mem.args) = 1
    /\ \E r \in {Remove(mem.heap, mem.args[1], pred)} :
           mem' = Called("Remove", pred, r, <<r.res>>)
    /\ UNCHANGED <<compileVars, internVars, concVars, gensymVars, readerVars, params,
                   handler, tables>>

CallPartition(pred) ==
    /\ mem.op = "none" /\ Len(mem.args) = 1
    /\ \E r \in {Partition(mem.heap, mem.args[1], pred)} :
           mem' = Called("Partition", pred, r, <<r.ins, r.outs>>)
    /\ UNCHANGED <<compileVars, internVars, concVars, gensymVars, readerVars, params,
                   handler, tables>>

CallDelete(x) ==
    /\ mem.op = "none" /\ Len(mem.args) = 1
    /\ \E r \in {Delete(mem.heap, mem.args[1], x)} :
           mem' = Called("Delete", {x}, r, <<r.res>>)
    /\ UNCHANGED <<compileVars, internVars, concVars, gensymVars, readerVars, params,
                   handler, tables>>

CallDeleteDuplicates ==
    /\ mem.op = "none" /\ Len(mem.args) = 1
    /\ \E r \in {DeleteDuplicates(mem.heap, mem.args[1])} :
           mem' = Called("DeleteDuplicates", {}, r, <<r.res>>)
    /\ UNCHANGED <<compileVars, internVars, concVars, gensymVars, readerVars, params,
                   handler, tables>>

NextLists ==
    \/ \E elements \in ValueSeqs(MaxListLen) : List(elements)
    \/ CallAppend
    \/ \E pred \in SUBSET Values : CallFilter(pred) \/ CallRemove(pred) \/ CallPartition(pred)
    \/ \E x \in Values : CallDelete(x)
    \/ CallDeleteDuplicates

SpecLists == Init /\ [][NextLists]_vars

\* the cells of the list p in heap H, in order, and their elements
RECURSIVE Cells(_, _)
Cells(H, p) == IF p <= 0 THEN <<>> ELSE <<p>> \o Cells(H, H[p].Cdr)

Elems(H, p) == [i \in 1..Len(Cells(H, p)) |-> H[Cells(H, p)[i]].Car]

\* the elements of the lists ls one after the other
RECURSIVE Concat(_, _)
Concat(H, ls) == IF ls = <<>> THEN <<>> ELSE Elems(H, Head(ls)) \o Concat(H, Tail(ls))

\* C25: the list that Append returns has the elements of its arguments in
\* order; the cells of the last argument are its tail, and all its other
\* cells are new: no cell of an earlier argument occurs in it.
C25_AppendSharesOnlyLastList ==
    (mem.op = "Append" /\ mem.args # <<>>) =>
        LET n == Len(mem.args)
            cells == Cells(mem.heap, mem.res[1])
            tail == Cells(mem.before, mem.args[n])
        IN /\ Elems(mem.heap, mem.res[1]) = Concat(mem.before, mem.args)
           /\ Len(cells) >= Len(tail)
           /\ SubSeq(cells, Len(cells) - Len(tail) + 1, Len(cells)) = tail
           /\ \A i \in 1..(Len(cells) - Len(tail)) : cells[i] > Len(mem.before)

\* C26: Filter, Remove, Partition, Delete and DeleteDuplicates leave the
\* argument list as it was: the same cells, with the same elements in the
\* same order, and every cell that existed before the call is unchanged.
C26_PureOperationsKeepArgument ==
    mem.op \in {"Filter", "Remove", "Partition", "Delete", "DeleteDuplicates"} =>
        /\ Cells(mem.heap, mem.args[1]) = Cells(mem.before, mem.args[1])
        /\ Elems(mem.heap, mem.args[1]) = Elems(mem.before, mem.args[1])
        /\ \A p \in 1..Len(mem.before) : mem.heap[p] = mem.before[p]

\* Delete was called on a list with two elements and dropped one of them
C26_Witness ==
    /\ mem.op = "Delete"
    /\ Len(Elems(mem.before, mem.args[1])) = 2
    /\ Len(Elems(mem.heap, mem.res[1])) = 1

\* ------------------------------------------- reader: comments, termination
\* C27: a line comment, block comment or form comment between the last
\* element of a list and its closing parenthesis is skipped: the forms read
\* are those of the list without the comment, and no error is recorded.
C27_CommentBeforeCloseSkipped ==
    \A p \in ListPrefixes, c \in TrailingComments :
        (reader.src = p \o c \o <<")">> /\ SourceRead) =>
            /\ forms = ReadAll(NewReader(p \o <<")">>))
            /\ reader.errs = <<>>

\* C28: reading a source ends: every call of Read that does not return
\* io.EOF consumes at least one rune, so that the client has seen io.EOF
\* after at most one call more than the source has runes.
C28_ReadingTerminates == Len(forms) <= Len(reader.src) + 1

\* ---------------------------------------------------------------------
\* compileFile: the whole file is translated
\* ---------------------------------------------------------------------

\* C29: when Compile returns output and no errors, every top-level form of
\* the source has been translated: compileFile stopped at the end of input
\* and no form of the file is left unread.
C29_OutputMeansWholeFileTranslated ==
    (Returned /\ output # <<>> /\ Len(err) = 0) =>
        (element.k = "eof" /\ unread = <<>>)

\* ---------------------------------------------------------------------
\* use declarations and the header
\* ---------------------------------------------------------------------

\* the header is the package line and import lines
HeaderLines(h) == \A i \in 1..Len(h) : h[i].kw \in {"package", "import"}

\* C30: use declarations contribute no text to the emitted Go: after a use
\* declaration with one spec or with several specs, the header consists
\* only of the package line and import lines.
C30_UseDeclarationsEmitNothing ==
    /\ (phase = "uses" /\ pc \in {"uses", "decls"}) => HeaderLines(header)
    /\ (Returned /\ output # <<>>) => \A i \in 1..Len(output) : output[i].kw # "use"

====
